---- MODULE Spec2Model ----
(***************************************************************************)
(* A model of the "endpoint" program (endpoint.c, netio.c): the framing    *)
(* codec of netio.c over a byte stream, the connection registry, send      *)
(* queue and dispatch loop of endpoint.c main(), and the worker loop of    *)
(* child_handle_client.                                                    *)
(*                                                                         *)
(* Three specifications share the module:                                  *)
(*   SpecRecv   - tcp_recv_message reading frames from a byte stream       *)
(*   Spec       - the Dispatcher: commands, registry, queues, dispatch pass*)
(*   SpecWorker - one worker process: receive, echo queue, drain           *)
(***************************************************************************)
EXTENDS Integers, Sequences, FiniteSets, TLC

\* ------------------------------------------------------------------------
\* Bounds of the model
\* ------------------------------------------------------------------------
\* Number of values of one byte (256 in the build).  An int is IntSize bytes,
\* so the signed int range is -(ByteBase^4)/2 .. (ByteBase^4)/2 - 1.
ByteBase == 4
\* MAX_MESSAGE_LEN (255 in the build, endpoint.c:54), scaled down.
MaxMessageLen == 2
\* Spec: destination ports the Command Source can name are 1..NumPorts
\* (and 0, what atoi gives for no number)
NumPorts == 2
\* Spec: tConnectStc entries created in one run
MaxConns == 2
\* Spec: messages submitted in one run
MaxMsgs == 2
\* Spec: sends that end SEND_BLOCKED in one run
MaxBlocked == 1
\* Spec: receives that end RECV_COMPLETE in one run
MaxRecv == 1
\* Spec: connections accepted on the listening socket
MaxWorkers == 1
\* SpecWorker: inbound frames one worker completes
MaxInbound == 3
\* SpecWorker: sends of one worker that end SEND_BLOCKED
MaxWorkerBlocked == 2
\* SpecReap: worker processes forked in a run
MaxChildren == 3
\* characters of an input line
MaxLine == 2

\* ------------------------------------------------------------------------
\* Program constants
\* ------------------------------------------------------------------------
\* sizeof(int): both fields of MessageHeaderStc are int
IntSize == 4
\* sizeof(MessageHeaderStc)
HeaderSize == 2 * IntSize
\* sizeof(buffer) of the receivers: char buffer[MAX_MESSAGE_LEN + 1]
Capacity == MaxMessageLen + 1

RECV_COMPLETE   == "RECV_COMPLETE"
RECV_BLOCKED    == "RECV_BLOCKED"
RECV_TERMINATED == "RECV_TERMINATED"
RECV_FAILURE    == "RECV_FAILURE"

SEND_COMPLETE == "SEND_COMPLETE"
SEND_BLOCKED  == "SEND_BLOCKED"
SEND_FAILURE  == "SEND_FAILURE"

STATE_IDLE    == "IDLE"
STATE_PENDING == "PENDING"
STATE_READY   == "READY"

\* ------------------------------------------------------------------------
\* Integer representation
\* ------------------------------------------------------------------------
Min(a, b) == IF a < b THEN a ELSE b

RECURSIVE Pow(_, _)
Pow(b, e) == IF e = 0 THEN 1 ELSE b * Pow(b, e - 1)

\* number of values of an int, of a size_t (twice as wide as an int)
IntMod  == Pow(ByteBase, IntSize)
SizeMod == IntMod * IntMod
IntMax  == (IntMod - 1) \div 2
IntMin  == IntMax - (IntMod - 1)
\* the largest ssize_t
SSizeMax == (SizeMod - 1) \div 2

\* an unsigned int bit pattern read as a signed int (two's complement)
ToSigned(u) == IF u > IntMax THEN u - IntMod ELSE u
\* conversion of a signed int to size_t, as in sizeof(header) + header.msglen
ToSize(i) == i % SizeMod

\* the bytes of an int in memory (little endian)
IntToBytes(v) == [i \in 1..IntSize |-> ((v % IntMod) \div Pow(ByteBase, i - 1)) % ByteBase]

RECURSIVE BytesToUnsigned(_)
BytesToUnsigned(b) ==
    IF b = <<>> THEN 0 ELSE Head(b) + ByteBase * BytesToUnsigned(Tail(b))

\* the int stored in IntSize bytes of memory
BytesToInt(b) == ToSigned(BytesToUnsigned(b))

Zeros(n) == [i \in 1..n |-> 0]

\* memcpy of data into mem at byte offset off
WriteAt(mem, off, data) ==
    [i \in 1..Len(mem) |->
        IF i > off /\ i <= off + Len(data) THEN data[i - off] ELSE mem[i]]

\* the C string held in a char array: the bytes before the first NUL
RECURSIVE CString(_)
CString(b) ==
    IF b = <<>> \/ Head(b) = 0 THEN <<>> ELSE <<Head(b)>> \o CString(Tail(b))

\* ------------------------------------------------------------------------
\* Framing: what tcp_send_message hands to sendmsg
\* ------------------------------------------------------------------------
\* header { msglen, msgix } followed by the payload bytes
FrameBytes(declared, msgix, payload) ==
    IntToBytes(declared) \o IntToBytes(msgix) \o payload

\* header.msglen = msglen = strlen(buffer); iov[0] = header, iov[1] = buffer
tcp_send_frame(payload, msgix) == FrameBytes(Len(payload), msgix, payload)

VARIABLES
    \* --- SpecRecv: the socket read by tcp_recv_message --------------------
    stream,      \* bytes sent by the peer that have not arrived yet
    sockbuf,     \* bytes in the socket receive buffer
    sockstate,   \* "open", "eof" (peer closed) or "error"
    \* --- SpecRecv: tcp_recv_message ---------------------------------------
    rpc,         \* "idle": no call active, "loop": inside while(true)
    header,      \* local MessageHeaderStc header, as HeaderSize bytes
    recv_count,  \* local recv_count
    iov,         \* msg_iov[0]: [base, off, len]
    buffer,      \* the caller's buffer (Capacity bytes)
    result,      \* value returned by the last call ("none" before any)
    hdrlogged,   \* the last call logged "invalid message header"
    bufzeroed,   \* the caller cleared its buffer before the last call
    \* --- SpecRecv: history -------------------------------------------------
    input,       \* the frames chosen by Init
    consumed,    \* bytes taken from the socket by recvmsg so far
    completes,   \* per RECV_COMPLETE: the C string the caller finds in its
                 \* buffer, and whether it had cleared the buffer before
    midblock,    \* some call returned RECV_BLOCKED after it had taken bytes
    \* --- Spec: the coordinating process (endpoint.c main) ------------------
    pc,            \* position in main's loop
    mem,           \* heap blocks of tConnectStc, by slot; freed blocks keep
                   \* their bytes (live = FALSE)
    first_conn_req,\* list head: next = first entry, prev = last entry
    first_conn_srv,\* the worker records, in list order
    current_endpt, \* selected connection (a slot, or NULL); may dangle
    connection,    \* loop variable of the dispatch pass
    testcount,
    running,
    ready_one,     \* read_set, write_set after select: the first descriptor
                   \* main will find set, until it has tested it (select
                   \* returned > 0, so one is set)
    listeners,     \* ports on which some endpoint listens
    retcode,       \* what the last select returned
    \* --- Spec: history ----------------------------------------------------
    submitted,     \* per slot: payloads handed to send_message, in order
    wire,          \* per slot: frames sendmsg accepted, in order
    log,           \* log events of the last step
    so_result,     \* outcome of the last SO_ERROR query
    visited,       \* entries the current dispatch pass has handled
    uaf,           \* the pointer through which the last step used a freed
                   \* entry: "connection", "current_endpt" or "none"
    sendmsg_ret,   \* what sendmsg returned to the last step: n and errno
    \* --- SpecWorker: one worker process (child_handle_client) -------------
    w_pc,          \* position in the worker's loop
    w_firstmsg,    \* the queue reached from firstmsg.next, in list order
    w_chain,       \* the entries the current drain walks through `next`
    w_pending,     \* `pending`: index into w_chain, 0 for NULL
    w_send_count,  \* send_count
    w_recv_count,  \* recv_count
    w_running,     \* running
    w_retcode,     \* what the worker's last select returned
    w_tick,        \* parity of the number of times its select has returned
    \* --- SpecWorker: history -----------------------------------------------
    w_wire,        \* frames sendmsg accepted, in order
    w_blocks,      \* sends that ended SEND_BLOCKED so far
    w_pass,        \* the sends of the current drain: [msgix, outcome]
    \* --- SpecReap: worker processes and the SIGCHLD handler -----------------
    children,      \* per pid: "unborn", "started" (forked, at the top of the
                   \* child branch), "running" (in child_handle_client),
                   \* "zombie" (terminated, not waited for) or "reaped"
    handles,       \* per process (0: the coordinating process, else the pid):
                   \* the sockets it holds open (0: the listening socket,
                   \* k: the socket of the k-th accept)
    child_args,    \* per pid: the child's clientsock and client_port, the
                   \* arguments of its child_handle_client call
    client_port,   \* main's client_port
    sigchld,       \* a SIGCHLD is pending for the coordinating process
    forked,        \* the pid fork returned and add_server_link has not
                   \* recorded yet (0: none)
    nonblock       \* the sockets whose O_NONBLOCK flag is set

recvVars == <<stream, sockbuf, sockstate, rpc, header, recv_count, iov, buffer,
              result, hdrlogged, bufzeroed, input, consumed, completes, midblock>>

dispVars == <<pc, mem, first_conn_req, first_conn_srv, current_endpt, connection,
              testcount, running, ready_one,
              listeners, retcode, submitted, wire, log, so_result,
              visited, uaf, sendmsg_ret>>

workVars == <<w_pc, w_firstmsg, w_chain, w_pending, w_send_count, w_recv_count,
              w_running, w_retcode, w_tick, w_wire, w_blocks, w_pass>>

reapVars == <<children, handles, child_args, client_port, sigchld, forked,
              nonblock>>

vars == <<recvVars, dispVars, workVars, reapVars>>

\* ------------------------------------------------------------------------
\* SpecRecv: inputs
\* ------------------------------------------------------------------------
\* payload characters (no NUL: messages are C strings)
Chars == {1, 2}

RECURSIVE SeqsUpTo(_, _)
SeqsUpTo(S, n) ==
    IF n = 0 THEN {<<>>}
    ELSE LET shorter == SeqsUpTo(S, n - 1)
         IN  shorter \cup {Append(s, c) : s \in {t \in shorter : Len(t) = n - 1}, c \in S}

\* messages a sender of this program can produce
Payloads == SeqsUpTo(Chars, MaxMessageLen)

\* a payload of n bytes: 1, 2, 1, 2, ...
Pattern(n) == [i \in 1..n |-> IF i % 2 = 1 THEN 1 ELSE 2]

\* values of the length field of a header that is not trusted
LenInputs == {IntMin, -(HeaderSize + 1), -HeaderSize, -1, 0, 1,
              Capacity, Capacity + 1, IntMax}

\* first frame: a frame of this program, or a header declaring any length
\* followed by any number of payload bytes
FirstFrames ==
    {[declared |-> Len(p), msgix |-> 1, payload |-> p] : p \in Payloads}
    \cup
    {[declared |-> d, msgix |-> 1, payload |-> Pattern(n)] :
        d \in LenInputs, n \in {0, Capacity, Capacity + 1}}

\* the payload of the second frame, always one this program can produce;
\* <<>> stands for no second frame
SecondFrames == {<<>>, <<1>>, <<2, 1>>}

\* the coordinating process is not part of SpecRecv
\* the step made no call of sendmsg
NoSendmsg == [n |-> 0, errno |-> "no call"]

DispIdle ==
    /\ pc = "off"
    /\ mem = <<>>
    /\ first_conn_req = [next |-> 0, prev |-> 0]
    /\ first_conn_srv = <<>>
    /\ current_endpt = 0
    /\ connection = 0
    /\ testcount = 0
    /\ running = FALSE
    /\ ready_one = [set |-> "none", fd |-> 0]
    /\ listeners = {}
    /\ retcode = "none"
    /\ submitted = <<>>
    /\ wire = <<>>
    /\ log = <<>>
    /\ so_result = "none"
    /\ visited = <<>>
    /\ uaf = "none"
    /\ sendmsg_ret = NoSendmsg

\* no worker process is part of SpecRecv or Spec
WorkIdle ==
    /\ w_pc = "off"
    /\ w_firstmsg = <<>>
    /\ w_chain = <<>>
    /\ w_pending = 0
    /\ w_send_count = 0
    /\ w_recv_count = 0
    /\ w_running = FALSE
    /\ w_retcode = "none"
    /\ w_tick = 0
    /\ w_wire = <<>>
    /\ w_blocks = 0
    /\ w_pass = <<>>

\* no worker has been forked in SpecRecv, Spec or SpecWorker
ReapIdle ==
    /\ children = <<>>
    /\ handles = <<>>
    /\ child_args = <<>>
    /\ client_port = 0
    /\ sigchld = FALSE
    /\ forked = 0
    /\ nonblock = {}

InitRecv ==
    /\ WorkIdle
    /\ ReapIdle
    /\ input \in [first : FirstFrames, second : SecondFrames]
    /\ stream = FrameBytes(input.first.declared, input.first.msgix, input.first.payload)
                \o (IF input.second # <<>> THEN tcp_send_frame(input.second, 2) ELSE <<>>)
    /\ sockbuf = <<>>
    /\ sockstate = "open"
    /\ rpc = "idle"
    /\ header = Zeros(HeaderSize)
    /\ recv_count = 0
    /\ iov = [base |-> "header", off |-> 0, len |-> HeaderSize]
    /\ buffer = Zeros(Capacity)
    /\ result = "none"
    /\ hdrlogged = FALSE
    /\ bufzeroed = TRUE
    /\ consumed = 0
    /\ completes = <<>>
    /\ midblock = FALSE
    /\ DispIdle

\* ------------------------------------------------------------------------
\* SpecRecv: the network
\* ------------------------------------------------------------------------
\* one more byte of the stream arrives in the socket buffer
Deliver ==
    /\ stream # <<>>
    /\ sockstate = "open"
    /\ sockbuf' = Append(sockbuf, Head(stream))
    /\ stream' = Tail(stream)
    /\ UNCHANGED <<sockstate, rpc, header, recv_count, iov, buffer, result,
                   hdrlogged, bufzeroed, input, consumed, completes, midblock>>
    /\ UNCHANGED <<dispVars, workVars, reapVars>>

\* the peer closes after everything it sent has arrived
PeerClose ==
    /\ stream = <<>>
    /\ sockstate = "open"
    /\ sockstate' = "eof"
    /\ UNCHANGED <<stream, sockbuf, rpc, header, recv_count, iov, buffer, result,
                   hdrlogged, bufzeroed, input, consumed, completes, midblock>>
    /\ UNCHANGED <<dispVars, workVars, reapVars>>

\* the connection breaks (e.g. ECONNRESET)
SockError ==
    /\ sockstate = "open"
    /\ sockstate' = "error"
    /\ UNCHANGED <<stream, sockbuf, rpc, header, recv_count, iov, buffer, result,
                   hdrlogged, bufzeroed, input, consumed, completes, midblock>>
    /\ UNCHANGED <<dispVars, workVars, reapVars>>

\* ------------------------------------------------------------------------
\* SpecRecv: tcp_recv_message (netio.c:253-322)
\* ------------------------------------------------------------------------
\* The caller calls tcp_recv_message: the locals are initialised
\* (netio.c:255-267).  zero: the caller cleared its buffer before the call
\* (always in the worker; in the Dispatcher only before the first call of a
\* read-ready pass, endpoint.c:1373).
RecvEnter(zero) ==
    /\ rpc = "idle"
    /\ result \notin {RECV_TERMINATED, RECV_FAILURE}
    /\ (~zero => result = RECV_COMPLETE)
    /\ rpc' = "loop"
    /\ header' = Zeros(HeaderSize)
    /\ recv_count' = 0
    /\ iov' = [base |-> "header", off |-> 0, len |-> HeaderSize]
    /\ buffer' = IF zero THEN Zeros(Capacity) ELSE buffer
    /\ hdrlogged' = FALSE
    /\ bufzeroed' = zero
    /\ UNCHANGED <<stream, sockbuf, sockstate, result, input, consumed, completes,
                   midblock>>
    /\ UNCHANGED <<dispVars, workVars, reapVars>>

\* what recvmsg does for the current iov: kind "error" (n < 0, errno not
\* EWOULDBLOCK), "eof" (n = 0), "block" (n < 0, EWOULDBLOCK) or "data" with
\* the number n of bytes copied
recvmsg ==
    IF sockstate = "error" THEN [kind |-> "error", n |-> -1]
    ELSE IF iov.len > SSizeMax THEN [kind |-> "error", n |-> -1]      \* EINVAL
    ELSE IF sockbuf # <<>> THEN [kind |-> "data", n |-> Min(iov.len, Len(sockbuf))]
    ELSE IF sockstate = "eof" THEN [kind |-> "eof", n |-> 0]
    ELSE [kind |-> "block", n |-> -1]

\* the header length after the validity check of netio.c:290-294
ClampLen(hl, msglen) == IF hl > msglen THEN msglen ELSE hl

\* a completeness test that does not wait for the payload
FrameCompleteAtHeader(rc, hl) == ToSize(rc) >= HeaderSize

\* the completeness test of netio.c:297
FrameComplete(rc, hl) == ToSize(rc) >= (HeaderSize + ToSize(hl)) % SizeMod

\* the return from a call
RecvReturn(r) ==
    /\ rpc' = "idle"
    /\ result' = r

\* one iteration of while(true): recvmsg and the bookkeeping after it
RecvStep ==
    /\ rpc = "loop"
    /\ UNCHANGED <<dispVars, workVars, reapVars>>
    /\ LET r == recvmsg
           n == r.n
       IN
       IF r.kind = "eof" THEN
            /\ RecvReturn(RECV_TERMINATED)
            /\ UNCHANGED <<stream, sockbuf, sockstate, header, recv_count, iov,
                           buffer, hdrlogged, bufzeroed, input, consumed, completes, midblock>>
       ELSE IF r.kind = "block" THEN
            /\ RecvReturn(RECV_BLOCKED)
            /\ midblock' = (midblock \/ recv_count > 0)
            /\ UNCHANGED <<stream, sockbuf, sockstate, header, recv_count, iov,
                           buffer, hdrlogged, bufzeroed, input, consumed, completes>>
       ELSE IF r.kind = "error" THEN
            /\ RecvReturn(RECV_FAILURE)
            /\ UNCHANGED <<stream, sockbuf, sockstate, header, recv_count, iov,
                           buffer, hdrlogged, bufzeroed, input, consumed, completes, midblock>>
       ELSE
         LET data == SubSeq(sockbuf, 1, n)
             rc   == recv_count + n
             hdr1 == IF iov.base = "header" THEN WriteAt(header, iov.off, data) ELSE header
             buf1 == IF iov.base = "buffer" THEN WriteAt(buffer, iov.off, data) ELSE buffer
             hl   == BytesToInt(SubSeq(hdr1, 1, IntSize))
             hl2  == ClampLen(hl, Capacity)
             hdr2 == IntToBytes(hl2) \o SubSeq(hdr1, IntSize + 1, HeaderSize)
         IN
            /\ sockbuf' = SubSeq(sockbuf, n + 1, Len(sockbuf))
            /\ consumed' = consumed + n
            /\ recv_count' = rc
            /\ buffer' = buf1
            /\ UNCHANGED <<stream, sockstate, input, midblock, bufzeroed>>
            /\ IF ToSize(rc) >= HeaderSize THEN
                    /\ header' = hdr2
                    /\ hdrlogged' = (hdrlogged \/ hl > Capacity)
                    /\ IF FrameComplete(rc, hl2) THEN
                            /\ RecvReturn(RECV_COMPLETE)
                            /\ completes' = Append(completes, [str |-> CString(buf1), zeroed |-> bufzeroed])
                            /\ iov' = iov
                       ELSE
                            /\ UNCHANGED <<rpc, result, completes>>
                            /\ iov' = IF rc = HeaderSize
                                      THEN [base |-> "buffer", off |-> 0, len |-> ToSize(hl2)]
                                      ELSE [base |-> "buffer", off |-> rc - HeaderSize,
                                            len |-> iov.len - n]
               ELSE
                    /\ header' = hdr1
                    /\ iov' = [base |-> "header", off |-> rc, len |-> HeaderSize - rc]
                    /\ UNCHANGED <<rpc, result, hdrlogged, completes>>

NextRecv ==
    \/ Deliver
    \/ PeerClose
    \/ SockError
    \/ \E zero \in BOOLEAN : RecvEnter(zero)
    \/ RecvStep

SpecRecv == InitRecv /\ [][NextRecv]_vars

\* ------------------------------------------------------------------------
\* SpecRecv: properties
\* ------------------------------------------------------------------------
\* the first frame is one tcp_send_message produces for a message of legal size
HonestFirst ==
    /\ input.first.declared = Len(input.first.payload)
    /\ input.first.declared <= MaxMessageLen
    /\ \A i \in 1..Len(input.first.payload) : input.first.payload[i] # 0

FirstFrameLen == HeaderSize + Len(input.first.payload)
StreamLen == FirstFrameLen +
             (IF input.second # <<>> THEN HeaderSize + Len(input.second) ELSE 0)

\* Frames of this program are decoded exactly when no RECV_BLOCKED falls
\* inside a frame (every split of the bytes into reads within the calls).
DecodeWithoutMidBlock ==
    (HonestFirst /\ ~midblock) =>
        /\ \A k \in 1..Len(completes) :
              completes[k].zeroed =>
                 completes[k].str = IF k = 1 THEN input.first.payload ELSE input.second
        /\ (rpc = "idle" /\ consumed >= FirstFrameLen) => Len(completes) >= 1
        /\ (rpc = "idle" /\ consumed = StreamLen /\ input.second # <<>>)
              => Len(completes) = 2

\* C1: when a call returns RECV_BLOCKED after it has taken part of a frame,
\* the bytes taken (header so far, count, cursor) are what the next call on
\* the connection starts from.
C1_ContinuationKept ==
    [][(rpc = "idle" /\ result = RECV_BLOCKED /\ recv_count > 0 /\ rpc' = "loop")
          => (recv_count' = recv_count /\ header' = header /\ iov' = iov)]_vars

\* C2: frame round trip: once receive calls have taken all bytes of a frame
\* made by tcp_send_message for payload P, however the bytes were split and
\* wherever a would-block fell, the caller has been given RECV_COMPLETE with
\* exactly P.
C2_RoundTrip ==
    (HonestFirst /\ rpc = "idle" /\ consumed >= FirstFrameLen)
        => (Len(completes) >= 1 /\ completes[1].str = input.first.payload)

\* the first header declares more than the receive capacity and the peer
\* sent as many payload bytes as it declared
OversizedFirst ==
    /\ input.first.declared > Capacity
    /\ Len(input.first.payload) = input.first.declared

\* C7: clamp safety: for a header declaring more than the capacity no read
\* is asked to go past the buffer, the event is logged, the call returns
\* RECV_COMPLETE, and the frame that follows on the connection is received.
C7_ClampSafety ==
    (OversizedFirst /\ ~midblock) =>
        /\ (completes = <<>> /\ rpc = "loop" /\ iov.base = "buffer")
              => iov.off + iov.len <= Capacity
        /\ (Len(completes) = 1 /\ rpc = "idle" /\ result = RECV_COMPLETE) => hdrlogged
        /\ (rpc = "idle" /\ consumed >= HeaderSize + Capacity) => Len(completes) >= 1
        /\ (input.second # <<>> /\ rpc = "idle" /\ consumed = StreamLen)
              => (Len(completes) = 2 /\ (completes[2].zeroed => completes[2].str = input.second))

\* the part of C7 the code does satisfy: the clamp itself
ClampBounded ==
    (OversizedFirst /\ ~midblock) =>
        /\ (completes = <<>> /\ rpc = "loop" /\ iov.base = "buffer")
              => iov.off + iov.len <= Capacity
        /\ (Len(completes) = 1 /\ rpc = "idle" /\ result = RECV_COMPLETE) => hdrlogged
        /\ (rpc = "idle" /\ consumed >= HeaderSize + Capacity) => Len(completes) >= 1

\* C8: whatever the length field of a received header holds, a read into the
\* buffer is never asked to store more bytes than the buffer has room for.
C8_LengthUntrusted ==
    (rpc = "loop" /\ iov.base = "buffer") => iov.off + iov.len <= Capacity

\* the bytes of the stream up to the end of the k-th frame
FrameEnd(k) == IF k = 1 THEN FirstFrameLen ELSE StreamLen

\* C39: a call in which no read blocks, whatever the sizes of its reads:
\* it returns RECV_COMPLETE with the payload bytes of the frame, in order,
\* at the start of the buffer, and it has taken header size + declared
\* length bytes from the socket, none of the frame that follows.
C39_SingleCall ==
    (HonestFirst /\ ~midblock) =>
        /\ (rpc = "loop" /\ result # RECV_FAILURE) => consumed <= FrameEnd(Len(completes) + 1)
        /\ (rpc = "idle" /\ result = RECV_COMPLETE) =>
              LET k == Len(completes)
                  payload == IF k = 1 THEN input.first.payload ELSE input.second
              IN  /\ k \in 1..2
                  /\ consumed = FrameEnd(k)
                  /\ SubSeq(buffer, 1, Len(payload)) = payload

\* the first frame has been received by a call that took its payload in two
\* reads, and bytes of the next frame are waiting in the socket
C39_Witness ==
    /\ HonestFirst /\ ~midblock
    /\ rpc = "idle" /\ result = RECV_COMPLETE /\ Len(completes) = 1
    /\ Len(input.first.payload) = 2
    /\ iov = [base |-> "buffer", off |-> 1, len |-> 1]
    /\ sockbuf # <<>>

\* C38: when the read-ready loop of the coordinating process receives
\* several frames in one pass (it clears its buffer before the first call
\* only), the payload it reports for each RECV_COMPLETE is the bytes of that
\* frame, with nothing left over from an earlier, longer frame.
C38_NoLeftover ==
    (HonestFirst /\ ~midblock) =>
        \A k \in 1..Len(completes) :
            ~completes[k].zeroed => completes[k].str = input.second

\* the part of C38 that holds: a frame at least as long as the one before
\* it overwrites all of it
NoLeftoverWhenNotShorter ==
    (HonestFirst /\ ~midblock /\ Len(input.second) >= Len(input.first.payload)) =>
        \A k \in 1..Len(completes) :
            ~completes[k].zeroed => completes[k].str = input.second

\* ========================================================================
\* Spec: the coordinating process (endpoint.c)
\* ========================================================================
NULL == 0
\* a pointer value that cannot be dereferenced
WILD == -1
Ports == 1..NumPorts
\* heap blocks malloc hands out for tConnectStc entries, in this order;
\* a freed block is not handed out again
Slots == 1..MaxConns
\* ports on which an endpoint listens: the odd ones
Listening == {p \in Ports : p % 2 = 1}

\* the tcp_recv_message machine is not part of Spec
RecvIdle ==
    /\ stream = <<>>
    /\ sockbuf = <<>>
    /\ sockstate = "open"
    /\ rpc = "off"
    /\ header = <<>>
    /\ recv_count = 0
    /\ iov = [base |-> "header", off |-> 0, len |-> 0]
    /\ buffer = <<>>
    /\ result = "none"
    /\ hdrlogged = FALSE
    /\ bufzeroed = FALSE
    /\ input = <<>>
    /\ consumed = 0
    /\ completes = <<>>
    /\ midblock = FALSE

\* a block of memory that never held an entry
NoConn == [live |-> FALSE, next |-> NULL, prev |-> NULL, open |-> FALSE,
           destport |-> 0, sendport |-> "unset", state |-> STATE_IDLE,
           msgix |-> 0, sntix |-> 0, rspix |-> 0, pndix |-> 0, queue |-> <<>>]

\* log events
Ev(cat, what, port) == [cat |-> cat, what |-> what, port |-> port]

\* ----- the registry list (endpoint.c:320-507) ---------------------------
RECURSIVE WalkFrom(_, _, _)
\* the entries reached from p by following next
WalkFrom(m, p, fuel) ==
    IF p = NULL \/ fuel = 0 THEN <<>> ELSE <<p>> \o WalkFrom(m, m[p].next, fuel - 1)

\* the registry in list order
Registry(m, first) == WalkFrom(m, first.next, Cardinality(Slots))

RECURSIVE FindIn(_, _, _)
FindIn(m, list, destport) ==
    IF list = <<>> THEN NULL
    ELSE IF m[Head(list)].destport = destport THEN Head(list)
    ELSE FindIn(m, Tail(list), destport)

\* a find_connection that misses every entry
find_connection_blind(m, first, destport) == NULL

\* find_connection: the first entry with this destination port, or NULL
find_connection(m, first, destport) == FindIn(m, Registry(m, first), destport)

\* a rem_connection that finds no entry to remove
rem_connection_none(m, first, destport) ==
    [mem |-> m, first |-> first, log |-> <<Ev("ERROR", "not found", destport)>>]

\* rem_connection: close the socket, unlink the entry, free it
rem_connection(m, first, destport) ==
    LET c == find_connection(m, first, destport) IN
    IF c = NULL
    THEN [mem |-> m, first |-> first,
          log |-> <<Ev("ERROR", "not found", destport)>>]
    ELSE
      LET next == m[c].next
          prev == m[c].prev
          m1 == IF next = NULL /\ prev = NULL THEN m
                ELSE IF prev = NULL THEN [m EXCEPT ![next].prev = NULL]
                ELSE IF next = NULL THEN [m EXCEPT ![prev].next = NULL]
                ELSE [m EXCEPT ![next].prev = prev, ![prev].next = next]
          f1 == IF next = NULL /\ prev = NULL THEN [next |-> NULL, prev |-> NULL]
                ELSE IF prev = NULL THEN [first EXCEPT !.next = next]
                ELSE IF next = NULL THEN [first EXCEPT !.prev = prev]
                ELSE first
      IN [mem |-> [m1 EXCEPT ![c].live = FALSE, ![c].open = FALSE],
          first |-> f1,
          log |-> <<Ev("OTHER", "closing and removing", destport)>>]

\* an add_connection that keeps the entry whatever connect returned
ConnectKeepsAny(state) == TRUE

\* a connect result for which add_connection keeps the entry (endpoint.c:417)
ConnectKeeps(state) == state # STATE_IDLE

\* what connect() can give for a port: READY (done at once), PENDING
\* (EINPROGRESS) or IDLE (invalid port, or any other error)
ConnectResults(destport) ==
    IF destport <= 0 THEN {STATE_IDLE}
    ELSE IF destport \in listeners THEN {STATE_READY, STATE_PENDING}
    ELSE {STATE_PENDING, STATE_IDLE}

\* add_connection; sockok: tcp_create_socket succeeded; state: the result of
\* tcp_connect_to_server.  slot: the block malloc returns.
add_connection(m, first, destport, slot, sockok, state) ==
    IF find_connection(m, first, destport) # NULL
    THEN [mem |-> m, first |-> first, ret |-> NULL,
          log |-> <<Ev("ERROR", "already connected", destport)>>]
    ELSE IF ~sockok
    THEN [mem |-> m, first |-> first, ret |-> NULL,
          log |-> <<Ev("ERROR", "socket open", destport)>>]
    ELSE IF ~ConnectKeeps(state)
    THEN [mem |-> m, first |-> first, ret |-> NULL,
          log |-> <<Ev("SOCKET", "client socket created", destport),
                    Ev("ERROR", "socket connect", destport)>>]
    ELSE
      LET last == first.prev
          entry == [live |-> TRUE, next |-> NULL,
                    prev |-> last,
                    open |-> TRUE, destport |-> destport,
                    sendport |-> "unset", state |-> state,
                    msgix |-> 0, sntix |-> 0, rspix |-> 0, pndix |-> 0,
                    queue |-> <<>>]
          m1 == [m EXCEPT ![slot] = entry]
          m2 == IF last # NULL THEN [m1 EXCEPT ![last].next = slot] ELSE m1
          f1 == IF last # NULL THEN [first EXCEPT !.prev = slot]
                ELSE [next |-> slot, prev |-> slot]
      IN [mem |-> m2, first |-> f1, ret |-> slot,
          log |-> <<Ev("SOCKET", "client socket created", destport),
                    Ev("SOCKET", "socket connect", destport)>>]

\* ----- totals over the run (for the bounds) --------------------------------
RECURSIVE SumTo(_, _)
SumTo(f, n) == IF n = 0 THEN 0 ELSE f[n] + SumTo(f, n - 1)
\* sends that ended SEND_BLOCKED
Blocks(m) == SumTo([s \in Slots |-> m[s].pndix], MaxConns)
\* receives that ended RECV_COMPLETE
Recvs(m) == SumTo([s \in Slots |-> m[s].rspix], MaxConns)

\* ----- the send queue (endpoint.c:780-891) -------------------------------
\* an add_message that links the new entry at the head
add_message_front(queue, msgix, buf) == <<[msgix |-> msgix, buffer |-> buf]>> \o queue

\* an add_message that links nothing
add_message_none(queue, msgix, buf) == queue

\* add_message: append at the tail
add_message(queue, msgix, buf) == Append(queue, [msgix |-> msgix, buffer |-> buf])
\* a rem_message that unlinks nothing
rem_message_keep(queue) == queue

\* rem_message: unlink the first entry
rem_message(queue) == IF queue = <<>> THEN queue ELSE Tail(queue)

NoBuf == 0

EWOULDBLOCK == "EWOULDBLOCK"

\* the bytes of a frame: the header and a payload of MaxMessageLen
\* characters
WholeFrame == HeaderSize + MaxMessageLen

\* what sendmsg can return on the socket of entry c of m: the number of
\* bytes written (WholeFrame, or 1 when the socket buffer took the first
\* byte only) or -1, and errno, which a call that returns 0 leaves as it was
SendmsgReturns(m, c) ==
    IF ~m[c].open THEN {[n |-> -1, errno |-> "EBADF"]}
    ELSE {[n |-> WholeFrame, errno |-> "unset"],
          [n |-> 1, errno |-> "unset"],
          [n |-> 0, errno |-> EWOULDBLOCK],
          [n |-> -1, errno |-> "EPIPE"]}
         \cup (IF Blocks(m) < MaxBlocked
               THEN {[n |-> -1, errno |-> EWOULDBLOCK]} ELSE {})

\* a tcp_send_message that takes a write of no bytes for a complete send
tcp_send_message_zero(os) ==
    IF os.n >= 0 THEN SEND_COMPLETE
    ELSE IF os.n < 0 /\ os.errno = EWOULDBLOCK THEN SEND_BLOCKED
    ELSE SEND_FAILURE

\* tcp_send_message: the status for what sendmsg returned
tcp_send_message(os) ==
    IF os.n > 0 THEN SEND_COMPLETE
    ELSE IF os.n < 0 /\ os.errno = EWOULDBLOCK THEN SEND_BLOCKED
    ELSE SEND_FAILURE

\* what tcp_send_message can return on the socket of entry c of m
SendOutcomes(m, c) == {tcp_send_message(os) : os \in SendmsgReturns(m, c)}

\* a choice of the buffer to send that prefers the new message
ToSendNew(queue, buf) == IF buf # NoBuf THEN buf ELSE Head(queue).buffer

\* the buffer send_message hands to tcp_send_message: pending->buffer when
\* get_message found an entry, else the caller's buffer
ToSend(queue, buf) == IF queue # <<>> THEN Head(queue).buffer ELSE buf

\* send_message(connection, buffer) when tcp_send_message returns outcome;
\* buf = NoBuf is the call send_message(connection, 0)
send_message(m, first, c, buf, outcome) ==
    LET queue   == m[c].queue
        pending == queue # <<>>                  \* get_message found an entry
    IN
    IF ~pending /\ buf = NoBuf
    THEN [mem |-> m, first |-> first, ret |-> -1, sent |-> <<>>, log |-> <<>>]
    ELSE
      LET q1 == IF pending /\ buf # NoBuf
                THEN add_message(queue, m[c].msgix, buf) ELSE queue
          tosend == ToSend(queue, buf)
          frame  == [ix |-> m[c].msgix, payload |-> tosend]
      IN
      IF outcome = SEND_BLOCKED THEN
          [mem |-> [m EXCEPT ![c].queue = IF ~pending
                                           THEN add_message(q1, m[c].msgix, tosend)
                                           ELSE q1,
                             ![c].pndix = @ + 1],
           first |-> first, ret |-> -1, sent |-> <<>>,
           log |-> <<Ev("ERROR", "sendmsg blocked", m[c].destport)>>]
      ELSE IF outcome = SEND_FAILURE THEN
          LET r == rem_connection([m EXCEPT ![c].queue = q1], first, m[c].destport)
          IN [mem |-> r.mem, first |-> r.first, ret |-> -1, sent |-> <<>>,
              log |-> <<Ev("ERROR", "sendmsg", m[c].destport)>> \o r.log]
      ELSE
          [mem |-> [m EXCEPT ![c].sntix = @ + 1,
                             ![c].queue = IF pending THEN rem_message(q1) ELSE q1],
           first |-> first, ret |-> 0, sent |-> <<frame>>, log |-> <<>>]

\* ----- Init ---------------------------------------------------------------
Init ==
    /\ RecvIdle
    /\ WorkIdle
    /\ ReapIdle
    /\ pc = "select"
    /\ mem = [s \in Slots |-> NoConn]
    /\ first_conn_req = [next |-> NULL, prev |-> NULL]
    /\ first_conn_srv = <<>>
    /\ current_endpt = NULL
    /\ connection = NULL
    /\ testcount = 0
    /\ running = TRUE
    /\ ready_one = [set |-> "none", fd |-> 0]
    /\ listeners = Listening
    /\ retcode = "none"
    /\ submitted = [s \in Slots |-> <<>>]
    /\ wire = [s \in Slots |-> <<>>]
    /\ log = <<>>
    /\ so_result = "none"
    /\ visited = <<>>
    /\ uaf = "none"
    /\ sendmsg_ret = NoSendmsg

\* ----- helpers of the steps ------------------------------------------------
\* blocks malloc has not handed out yet
Unused(m) == {s \in Slots : m[s] = NoConn}
\* the block malloc returns for a new entry
FreeSlot(m) == CHOOSE s \in Unused(m) : \A t \in Unused(m) : s <= t

\* messages submitted so far
Submissions == SumTo([s \in Slots |-> Len(submitted[s])], MaxConns)

\* append the frames of one send_message call to the history of slot c
Sent(c, frames) == [wire EXCEPT ![c] = @ \o frames]

\* the payload of the next message submitted on slot c
NextPayload(c) == Len(submitted[c]) + 1

TestCountMax == 99999

\* the codec variables and the listeners never change in Spec
RestUnchanged == UNCHANGED <<recvVars, workVars, reapVars, listeners>>

\* ----- the descriptor sets ----------------------------------------------------
\* set: "stdin", "server", or "read"/"write" with the slot of a connection
Fd(set, fd) == [set |-> set, fd |-> fd]
NoFd == Fd("none", 0)
\* what FD_ISSET can answer for descriptor d: not set before the first set
\* descriptor, set for it, either after it
FD_ISSET(d) ==
    IF ready_one = NoFd THEN BOOLEAN ELSE IF ready_one = d THEN {TRUE} ELSE {FALSE}
\* the descriptor d has been tested
Tested(d) == IF ready_one = d THEN NoFd ELSE ready_one
\* the entry of the first set descriptor has been removed before its test:
\* every descriptor tested from now on can be set or not
Untestable(m) ==
    IF ready_one.set \in {"read", "write"} /\ ~m[ready_one.fd].live
    THEN NoFd ELSE ready_one
\* the descriptors set_connection_select and main put into the sets
Watched(m, first) ==
    {Fd("stdin", 0)}
    \cup (IF Len(first_conn_srv) < MaxWorkers THEN {Fd("server", 0)} ELSE {})
    \cup {Fd(set, Registry(m, first)[i]) :
             set \in {"read", "write"}, i \in 1..Len(Registry(m, first))}

\* ----- select (endpoint.c:1150-1181) ---------------------------------------
\* select returns -1 with EINTR: the loop is restarted
SelectInterrupted ==
    /\ pc = "select"
    /\ retcode' = "EINTR"
    /\ log' = <<Ev("OTHER", "select interrupted", 0)>>
    /\ so_result' = "none"
    /\ RestUnchanged
    /\ sendmsg_ret' = NoSendmsg
    /\ UNCHANGED <<pc, mem, first_conn_req, first_conn_srv, current_endpt, connection,
                   testcount, running, ready_one,
                   submitted, wire, visited>>
    /\ uaf' = "none"

\* select fails with another error: exit(1)
SelectFails ==
    /\ pc = "select"
    /\ pc' = "exited"
    /\ retcode' = "error"
    /\ log' = <<Ev("ERROR", "select", 0)>>
    /\ so_result' = "none"
    /\ RestUnchanged
    /\ sendmsg_ret' = NoSendmsg
    /\ UNCHANGED <<mem, first_conn_req, first_conn_srv, current_endpt, connection,
                   testcount, running, ready_one,
                   submitted, wire, visited>>
    /\ uaf' = "none"

\* select returns 0: nothing is done in this cycle
SelectTimeout ==
    /\ pc = "select"
    /\ retcode' = "timeout"
    /\ log' = <<>>
    /\ so_result' = "none"
    /\ RestUnchanged
    /\ sendmsg_ret' = NoSendmsg
    /\ UNCHANGED <<pc, mem, first_conn_req, first_conn_srv, current_endpt, connection,
                   testcount, running, ready_one,
                   submitted, wire, visited>>
    /\ uaf' = "none"

\* select returns a positive count: at least one descriptor is ready
SelectReady ==
    /\ pc = "select"
    /\ ready_one' \in Watched(mem, first_conn_req)
    /\ pc' = "stdin"
    /\ retcode' = "ready"
    /\ log' = <<>>
    /\ so_result' = "none"
    /\ RestUnchanged
    /\ sendmsg_ret' = NoSendmsg
    /\ UNCHANGED <<mem, first_conn_req, first_conn_srv, current_endpt, connection,
                   testcount, running, submitted, wire, visited>>
    /\ uaf' = "none"

\* ----- the Command Source (endpoint.c:1184-1264) ----------------------------
\* FD_ISSET(STDIN_FILENO) is false
NoCommand ==
    /\ pc = "stdin"
    /\ FALSE \in FD_ISSET(Fd("stdin", 0))
    /\ pc' = "test"
    /\ UNCHANGED retcode
    /\ log' = <<>>
    /\ so_result' = "none"
    /\ RestUnchanged
    /\ sendmsg_ret' = NoSendmsg
    /\ UNCHANGED <<mem, first_conn_req, first_conn_srv, current_endpt, connection,
                   testcount, running, ready_one,
                   submitted, wire, visited>>
    /\ uaf' = "none"

\* what every command step does: testcount = 0, and the next position
CmdCommon ==
    /\ pc = "stdin"
    /\ TRUE \in FD_ISSET(Fd("stdin", 0))
    /\ ready_one' = Tested(Fd("stdin", 0))
    /\ so_result' = "none"
    /\ RestUnchanged
    /\ UNCHANGED <<first_conn_srv, connection, retcode, visited>>

\* the test `current_endpt == NULL || current_endpt->state == STATE_IDLE`
NoActiveConnection(m, c) == c = NULL \/ m[c].state = STATE_IDLE

\* current_endpt points to a freed block
Dangling(m, c) == c # NULL /\ ~m[c].live

CmdQuit ==
    /\ CmdCommon
    /\ sendmsg_ret' = NoSendmsg
    /\ running' = FALSE
    /\ testcount' = 0
    /\ pc' = "test"
    /\ log' = <<Ev("QUERY", "exiting", 0)>>
    /\ UNCHANGED <<mem, first_conn_req, current_endpt, submitted, wire>>
    /\ uaf' = "none"

\* case ACTION_SEND_MESSAGE of main's switch.  userio_get_command returns
\* this value for no input line, so the case is not a step of Next.
CmdSend ==
    /\ CmdCommon
    /\ testcount' = 0
    /\ pc' = "test"
    /\ uaf' = IF Dangling(mem, current_endpt) THEN "current_endpt" ELSE "none"
    /\ UNCHANGED <<running, current_endpt>>
    /\ IF NoActiveConnection(mem, current_endpt) THEN
            /\ log' = <<Ev("ERROR", "no active connection", 0)>>
            /\ sendmsg_ret' = NoSendmsg
            /\ UNCHANGED <<mem, first_conn_req, submitted, wire>>
       ELSE
            /\ Submissions < MaxMsgs
            /\ \E os \in SendmsgReturns(mem, current_endpt) :
                 LET outcome == tcp_send_message(os)
                     c  == current_endpt
                     m1 == [mem EXCEPT ![c].msgix = @ + 1]
                     r  == send_message(m1, first_conn_req, c, NextPayload(c), outcome)
                 IN /\ mem' = r.mem
                    /\ first_conn_req' = r.first
                    /\ log' = r.log
                    /\ sendmsg_ret' = os
                    /\ submitted' = [submitted EXCEPT ![c] = Append(@, NextPayload(c))]
                    /\ wire' = Sent(c, r.sent)

CmdAdd(value) ==
    /\ CmdCommon
    /\ sendmsg_ret' = NoSendmsg
    /\ testcount' = 0
    /\ pc' = "test"
    /\ (Unused(mem) # {} \/ find_connection(mem, first_conn_req, value) # NULL)
    /\ \E sockok \in BOOLEAN, state \in ConnectResults(value) :
         LET slot == IF Unused(mem) # {} THEN FreeSlot(mem) ELSE NULL
             r == add_connection(mem, first_conn_req, value, slot, sockok, state)
         IN /\ mem' = r.mem
            /\ first_conn_req' = r.first
            /\ current_endpt' = r.ret
            /\ log' = r.log
            /\ submitted' = IF r.ret # NULL THEN [submitted EXCEPT ![slot] = <<>>]
                            ELSE submitted
            /\ wire' = IF r.ret # NULL THEN [wire EXCEPT ![slot] = <<>>] ELSE wire
    /\ UNCHANGED <<running>>
    /\ uaf' = "none"

CmdRem(value) ==
    /\ CmdCommon
    /\ sendmsg_ret' = NoSendmsg
    /\ testcount' = 0
    /\ pc' = "test"
    /\ LET r == rem_connection(mem, first_conn_req, value)
       IN /\ mem' = r.mem
          /\ first_conn_req' = r.first
          /\ log' = r.log
          \* current_endpt->destport is read after the entry may have been freed
          /\ uaf' = IF Dangling(r.mem, current_endpt) THEN "current_endpt" ELSE "none"
          /\ current_endpt' = IF current_endpt # NULL
                                 /\ r.mem[current_endpt].destport = value
                              THEN NULL ELSE current_endpt
    /\ UNCHANGED <<running, submitted, wire>>

CmdSel(value) ==
    /\ CmdCommon
    /\ sendmsg_ret' = NoSendmsg
    /\ testcount' = 0
    /\ pc' = "test"
    /\ current_endpt' = find_connection(mem, first_conn_req, value)
    /\ log' = IF find_connection(mem, first_conn_req, value) = NULL
              THEN <<Ev("ERROR", "not found", value)>> ELSE <<>>
    /\ UNCHANGED <<mem, first_conn_req, running, submitted, wire>>
    /\ uaf' = "none"

\* the clamp of endpoint.c:1241-1243
ClampTestCount(value) ==
    IF value > TestCountMax THEN TestCountMax ELSE IF value < 0 THEN 0 ELSE value

CmdTest(value) ==
    /\ CmdCommon
    /\ sendmsg_ret' = NoSendmsg
    /\ pc' = "test"
    /\ uaf' = IF Dangling(mem, current_endpt) THEN "current_endpt" ELSE "none"
    /\ IF NoActiveConnection(mem, current_endpt) THEN
            /\ testcount' = 0
            /\ log' = <<Ev("ERROR", "no active connection", 0)>>
       ELSE
            /\ testcount' = ClampTestCount(value)
            /\ log' = <<>>
    /\ UNCHANGED <<mem, first_conn_req, current_endpt, running, submitted, wire>>

\* case ACTION_HOHOHO of main's switch: send_message(current_endpt, package)
\* with no test of current_endpt and no increment of msgix.
\* userio_get_command returns this value for no input line, so the case is
\* not a step of Next.
CmdHoHoHo ==
    /\ CmdCommon
    /\ testcount' = 0
    /\ uaf' = IF Dangling(mem, current_endpt) THEN "current_endpt" ELSE "none"
    /\ UNCHANGED <<running, current_endpt>>
    /\ IF current_endpt = NULL THEN
            \* get_message reads through a null pointer
            /\ pc' = "crashed"
            /\ log' = <<>>
            /\ sendmsg_ret' = NoSendmsg
            /\ UNCHANGED <<mem, first_conn_req, submitted, wire>>
       ELSE
            /\ pc' = "test"
            /\ Submissions < MaxMsgs
            /\ \E os \in SendmsgReturns(mem, current_endpt) :
                 LET outcome == tcp_send_message(os)
                     c == current_endpt
                     r == send_message(mem, first_conn_req, c, NextPayload(c), outcome)
                 IN /\ mem' = r.mem
                    /\ first_conn_req' = r.first
                    /\ log' = r.log
                    /\ sendmsg_ret' = os
                    /\ submitted' = [submitted EXCEPT ![c] = Append(@, NextPayload(c))]
                    /\ wire' = Sent(c, r.sent)

\* ACTION_INVALID and every value without a case of its own: the command
\* is reported, after `testcount = 0` has run for the keyboard event
CmdInvalid ==
    /\ CmdCommon
    /\ sendmsg_ret' = NoSendmsg
    /\ testcount' = 0
    /\ pc' = "test"
    /\ log' = <<Ev("ERROR", "unknown command", 0)>>
    /\ UNCHANGED <<mem, first_conn_req, current_endpt, running, submitted, wire>>
    /\ uaf' = "none"

\* ACTION_DELAY, ACTION_SET_PRINT_FLAG and ACTION_SHOW_CONNECTIONS leave
\* the registry alone
CmdOther ==
    /\ CmdCommon
    /\ sendmsg_ret' = NoSendmsg
    /\ testcount' = 0
    /\ pc' = "test"
    /\ log' = <<>>
    /\ UNCHANGED <<mem, first_conn_req, current_endpt, running, submitted, wire>>
    /\ uaf' = "none"

\* ----- userio_get_command -------------------------------------------------
ACTION_INVALID == -1
ACTION_QUIT == 0
ACTION_SEND_MESSAGE == 1
ACTION_ADD_ENDPOINT == 2
ACTION_REM_ENDPOINT == 3
ACTION_SEL_ENDPOINT == 4
ACTION_DELAY == 5
ACTION_TEST == 6
ACTION_SET_PRINT_FLAG == 7
ACTION_SHOW_CONNECTIONS == 8

\* the characters of an input line: '#', two command letters, and 'h'
\* for any other character
LineChars == {"#", "q", "d", "h"}

\* the input lines, up to MaxLine characters
InputLines == UNION {[1..n -> LineChars] : n \in 0..MaxLine}

\* buffer[i] of the zeroed buffer fgets has filled with the line
LineChar(line, i) == IF i < Len(line) THEN line[i + 1] ELSE "nul"

\* userio_get_command: the command for an input line
userio_get_command(line) ==
    IF LineChar(line, 0) = "#" THEN
        CASE LineChar(line, 1) = "q" -> ACTION_QUIT
          [] LineChar(line, 1) = "+" -> ACTION_ADD_ENDPOINT
          [] LineChar(line, 1) = "-" -> ACTION_REM_ENDPOINT
          [] LineChar(line, 1) = "s" -> ACTION_SEL_ENDPOINT
          [] LineChar(line, 1) = "z" -> ACTION_DELAY
          [] LineChar(line, 1) = "t" -> ACTION_TEST
          [] LineChar(line, 1) = "p" -> ACTION_SET_PRINT_FLAG
          [] LineChar(line, 1) = "d" -> ACTION_SHOW_CONNECTIONS
          [] OTHER -> ACTION_INVALID
    ELSE ACTION_SHOW_CONNECTIONS

\* the lines that do not start with '#'
TextLines == {line \in InputLines : LineChar(line, 0) # "#"}

\* the user enters a line of text: main's switch on the command
\* userio_get_command returns for it
CmdText(line) ==
    /\ line \in TextLines
    /\ IF userio_get_command(line) = ACTION_SEND_MESSAGE THEN CmdSend
       ELSE IF userio_get_command(line) = ACTION_SHOW_CONNECTIONS THEN CmdOther
       ELSE CmdInvalid

\* ----- the test-message generator (endpoint.c:1266-1276) -------------------
\* a cycle that goes on to the accept section whatever `running` holds
AfterTestAlways(r) == "accept"

\* `if (running)` around the accept section and the dispatch pass, and the
\* loop test `while (running)` that follows when it is false
AfterTest(r) == IF r THEN "accept" ELSE "exited"

TestMessage ==
    /\ pc = "test"
    /\ so_result' = "none"
    /\ RestUnchanged
    /\ pc' = AfterTest(running)
    /\ UNCHANGED <<first_conn_srv, current_endpt, connection, running, retcode,
                   visited>>
    /\ IF testcount # 0 THEN
            /\ Submissions < MaxMsgs
            /\ uaf' = IF Dangling(mem, current_endpt) THEN "current_endpt" ELSE "none"
            /\ testcount' = testcount - 1
            /\ \E os \in SendmsgReturns(mem, current_endpt) :
                 LET outcome == tcp_send_message(os)
                     c  == current_endpt
                     m1 == [mem EXCEPT ![c].msgix = @ + 1]
                     r  == send_message(m1, first_conn_req, c, NextPayload(c), outcome)
                 IN /\ mem' = r.mem
                    /\ first_conn_req' = r.first
                    /\ log' = r.log
                    /\ sendmsg_ret' = os
                    /\ submitted' = [submitted EXCEPT ![c] = Append(@, NextPayload(c))]
                    /\ wire' = Sent(c, r.sent)
                    /\ ready_one' = Untestable(r.mem)
       ELSE
            /\ log' = <<>>
            /\ UNCHANGED <<mem, first_conn_req, testcount, submitted, wire, ready_one>>
            /\ uaf' = "none"
            /\ sendmsg_ret' = NoSendmsg

\* ----- the listening socket (endpoint.c:1278-1311) --------------------------
\* add_server_link: an active record at the end of the list
add_server_link(links, pid, port) == Append(links, [pid |-> pid, port |-> port, valid |-> TRUE])

Accept ==
    /\ pc = "accept"
    /\ so_result' = "none"
    /\ RestUnchanged
    /\ sendmsg_ret' = NoSendmsg
    /\ ready_one' = Tested(Fd("server", 0))
    /\ UNCHANGED <<mem, first_conn_req, current_endpt, testcount, running, retcode,
                   submitted, wire>>
    /\ uaf' = "none"
    /\ \E isset \in FD_ISSET(Fd("server", 0)) :
         IF isset THEN
            /\ Len(first_conn_srv) < MaxWorkers
            /\ \E outcome \in {"ok", "accept fails", "fork fails"} :
                 IF outcome = "ok" THEN
                      /\ first_conn_srv' = add_server_link(first_conn_srv,
                                                           Len(first_conn_srv) + 1,
                                                           Len(first_conn_srv) + 1)
                      /\ log' = <<Ev("OTHER", "spawned child", 0)>>
                      /\ pc' = "conn_write"
                      /\ connection' = first_conn_req.next
                      /\ visited' = <<>>
                 ELSE
                      /\ pc' = "exited"
                      /\ log' = <<Ev("ERROR", outcome, 0)>>
                      /\ UNCHANGED <<first_conn_srv, connection, visited>>
         ELSE
            /\ pc' = "conn_write"
            /\ connection' = first_conn_req.next
            /\ visited' = <<>>
            /\ log' = <<>>
            /\ UNCHANGED first_conn_srv

\* ----- the dispatch pass (endpoint.c:1317-1404) ------------------------------
PassCommon ==
    /\ RestUnchanged
    /\ UNCHANGED <<first_conn_srv, current_endpt, testcount, running, retcode,
                   submitted>>

\* the descriptor sets stay as select left them
SetsUnchanged == UNCHANGED ready_one

\* the loop test `connection != NULL` fails: the pass is over, and the
\* next iteration of while(running) clears the descriptor sets
PassEnd ==
    /\ pc = "conn_write"
    /\ connection = NULL
    /\ pc' = "select"
    /\ ready_one' = NoFd
    /\ visited' = <<>>
    /\ log' = <<>>
    /\ so_result' = "none"
    /\ PassCommon
    /\ sendmsg_ret' = NoSendmsg
    /\ UNCHANGED <<mem, first_conn_req, connection, wire>>
    /\ uaf' = "none"

\* what getsockopt(SO_ERROR) can report for a connect in progress:
\* "zero", "error" (sock_error # 0) or "query fails" (retcode < 0)
SoErrorResults(destport) ==
    (IF destport \in listeners THEN {"zero"} ELSE {})
    \cup {"error", "query fails"}

\* a resolution that takes every answer of getsockopt for success
ConnectSucceededAlways(res) == TRUE

\* the connect of a PENDING entry succeeded when SO_ERROR is zero
ConnectSucceeded(res) == res = "zero"

\* top of the loop body: FD_ISSET(write_set) and the PENDING resolution
ConnWrite ==
    /\ pc = "conn_write"
    /\ connection # NULL
    /\ PassCommon
    /\ sendmsg_ret' = NoSendmsg
    /\ ready_one' = Tested(Fd("write", connection))
    /\ visited' = Append(visited, connection)
    /\ uaf' = IF ~mem[connection].live THEN "connection" ELSE "none"
    /\ UNCHANGED <<connection, wire>>
    /\ \E isset \in FD_ISSET(Fd("write", connection)) :
         IF ~isset THEN
            /\ pc' = "conn_read"
            /\ log' = <<>>
            /\ so_result' = "none"
            /\ UNCHANGED <<mem, first_conn_req>>
         ELSE IF mem[connection].state # STATE_PENDING THEN
            /\ pc' = "drain"
            /\ log' = <<>>
            /\ so_result' = "none"
            /\ UNCHANGED <<mem, first_conn_req>>
         ELSE
            \E res \in SoErrorResults(mem[connection].destport) :
               /\ so_result' = res
               /\ IF ConnectSucceeded(res) THEN
                     /\ mem' = [mem EXCEPT ![connection].state = STATE_READY,
                                           ![connection].sendport = "assigned"]
                     /\ log' = <<Ev("SOCKET", "connect complete", mem[connection].destport)>>
                     /\ pc' = "drain"
                     /\ UNCHANGED first_conn_req
                  ELSE
                     LET r == rem_connection(mem, first_conn_req, mem[connection].destport)
                     IN /\ mem' = r.mem
                        /\ first_conn_req' = r.first
                        /\ log' = <<Ev("SOCKET", IF res = "error" THEN "connect failure"
                                                 ELSE "getsockopt failed",
                                       mem[connection].destport)>> \o r.log
                        /\ pc' = "advance"      \* continue

\* one call of `while (! send_message (connection, 0)) { }`
Drain ==
    /\ pc = "drain"
    /\ PassCommon
    /\ SetsUnchanged
    /\ so_result' = "none"
    /\ UNCHANGED <<connection, visited>>
    /\ uaf' = IF ~mem[connection].live THEN "connection" ELSE "none"
    /\ \E os \in SendmsgReturns(mem, connection) :
         LET outcome == tcp_send_message(os)
             r == send_message(mem, first_conn_req, connection, NoBuf, outcome)
         IN /\ mem' = r.mem
            /\ first_conn_req' = r.first
            /\ log' = r.log
            \* with nothing queued send_message returns before it sends
            /\ sendmsg_ret' = IF mem[connection].queue = <<>> THEN NoSendmsg ELSE os
            /\ wire' = Sent(connection, r.sent)
            /\ pc' = IF r.ret = 0 THEN "drain" ELSE "conn_read"

\* FD_ISSET(connection->sockfd, &read_set) and the state test
ConnRead ==
    /\ pc = "conn_read"
    /\ PassCommon
    /\ sendmsg_ret' = NoSendmsg
    /\ ready_one' = Tested(Fd("read", connection))
    /\ so_result' = "none"
    /\ log' = <<>>
    /\ uaf' = IF ~mem[connection].live THEN "connection" ELSE "none"
    /\ \E isset \in FD_ISSET(Fd("read", connection)) :
         pc' = IF isset /\ mem[connection].state = STATE_READY
               THEN "recv" ELSE "advance"
    /\ UNCHANGED <<mem, first_conn_req, connection, wire, visited>>

\* what tcp_recv_message can return on the socket of entry c
RecvOutcomes(m, c) ==
    IF ~m[c].open THEN {RECV_FAILURE}        \* EBADF on a closed descriptor
    ELSE {RECV_BLOCKED, RECV_TERMINATED, RECV_FAILURE}
         \cup (IF Recvs(m) < MaxRecv THEN {RECV_COMPLETE} ELSE {})

\* one call of tcp_recv_message in the while(true) of the read-ready branch
Recv ==
    /\ pc = "recv"
    /\ PassCommon
    /\ sendmsg_ret' = NoSendmsg
    /\ SetsUnchanged
    /\ so_result' = "none"
    /\ uaf' = IF ~mem[connection].live THEN "connection" ELSE "none"
    /\ UNCHANGED <<connection, wire, visited>>
    /\ \E outcome \in RecvOutcomes(mem, connection) :
         IF outcome = RECV_COMPLETE THEN
              /\ mem' = [mem EXCEPT ![connection].rspix = @ + 1]
              /\ log' = <<Ev("RCVD", "message", mem[connection].destport)>>
              /\ pc' = "recv"
              /\ UNCHANGED first_conn_req
         ELSE IF outcome = RECV_BLOCKED THEN
              /\ pc' = "advance"
              /\ log' = <<>>
              /\ UNCHANGED <<mem, first_conn_req>>
         ELSE
              LET r == rem_connection(mem, first_conn_req, mem[connection].destport)
              IN /\ mem' = r.mem
                 /\ first_conn_req' = r.first
                 /\ log' = <<Ev(IF outcome = RECV_TERMINATED THEN "SOCKET" ELSE "ERROR",
                                "recvmsg", mem[connection].destport)>> \o r.log
                 /\ pc' = "advance"

\* what `connection->next` can yield: the field of a live entry; for a freed
\* block the old value, NULL, or a pointer whose use ends the process
NextOf(m, c) ==
    IF m[c].live THEN {m[c].next} ELSE {m[c].next, NULL, WILD}

\* the loop increment `connection = connection->next`
Advance ==
    /\ pc = "advance"
    /\ PassCommon
    /\ sendmsg_ret' = NoSendmsg
    /\ SetsUnchanged
    /\ so_result' = "none"
    /\ log' = <<>>
    /\ uaf' = IF ~mem[connection].live THEN "connection" ELSE "none"
    /\ UNCHANGED <<mem, first_conn_req, wire, visited>>
    /\ \E n \in NextOf(mem, connection) :
         IF n = WILD THEN pc' = "crashed" /\ connection' = connection
         ELSE pc' = "conn_write" /\ connection' = n

Next ==
    \/ SelectInterrupted
    \/ SelectFails
    \/ SelectTimeout
    \/ SelectReady
    \/ NoCommand
    \/ CmdQuit
    \/ \E value \in 0..NumPorts : CmdAdd(value)
    \/ \E value \in 0..NumPorts : CmdRem(value)
    \/ \E value \in 0..NumPorts : CmdSel(value)
    \/ \E value \in {-1, 1, TestCountMax + 1} : CmdTest(value)
    \/ CmdOther
    \/ CmdInvalid
    \/ \E line \in InputLines : CmdText(line)
    \/ TestMessage
    \/ Accept
    \/ PassEnd
    \/ ConnWrite
    \/ Drain
    \/ ConnRead
    \/ Recv
    \/ Advance

Spec == Init /\ [][Next]_vars

\* ----- properties of Spec ----------------------------------------------------
\* the entries of the registry, as a set
InRegistry(m, first) == {Registry(m, first)[i] : i \in 1..Len(Registry(m, first))}

\* the payloads of the frames written on slot c, and of the messages queued
WirePayloads(c) == [i \in 1..Len(wire[c]) |-> wire[c][i].payload]
QueueBuffers(m, c) == [i \in 1..Len(m[c].queue) |-> m[c].queue[i].buffer]

UniquePorts(m, first) ==
    \A c, d \in InRegistry(m, first) : m[c].destport = m[d].destport => c = d

\* C5: the registry never holds two entries for one destination port, and an
\* add for a port that has an entry reports the duplicate, creates no socket
\* and leaves every entry and the list as they were.
C5_Unique ==
    [][/\ UniquePorts(mem', first_conn_req')
       /\ \A v \in 0..NumPorts :
            (CmdAdd(v) /\ \E c \in InRegistry(mem, first_conn_req) : mem[c].destport = v)
               => /\ mem' = mem
                  /\ first_conn_req' = first_conn_req
                  /\ log' = <<Ev("ERROR", "already connected", v)>>]_vars

\* an add was refused as a duplicate while the registry holds the port once
C5_Witness ==
    \E c \in InRegistry(mem, first_conn_req) :
        /\ log = <<Ev("ERROR", "already connected", mem[c].destport)>>
        /\ \A d \in InRegistry(mem, first_conn_req) :
              mem[d].destport = mem[c].destport => d = c

\* C6: when the pass removes an entry it reads no field of the removed
\* entry afterwards, and at the end of the pass every entry still in the
\* registry has been visited exactly once.
C6_SafeRemoval ==
    /\ uaf # "connection"
    /\ (pc = "conn_write" /\ connection = NULL) =>
          \A c \in InRegistry(mem, first_conn_req) :
              Cardinality({i \in 1..Len(visited) : visited[i] = c}) = 1

\* C9: every entry of the registry is PENDING or READY, and the state of an
\* entry that stays in the registry is unchanged by a step or goes from
\* PENDING to READY.
C9_StateMachine ==
    [][/\ \A c \in InRegistry(mem', first_conn_req') :
            mem'[c].state \in {STATE_PENDING, STATE_READY}
       /\ \A c \in InRegistry(mem, first_conn_req) \cap InRegistry(mem', first_conn_req') :
            \/ mem'[c].state = mem[c].state
            \/ mem[c].state = STATE_PENDING /\ mem'[c].state = STATE_READY]_vars

\* a PENDING entry has just become READY
C9_Witness ==
    /\ so_result = "zero"
    /\ connection \in InRegistry(mem, first_conn_req)
    /\ mem[connection].state = STATE_READY

\* the step resolves the connect of the PENDING entry under `connection`
Resolves == pc = "conn_write" /\ connection # NULL /\ so_result' # "none"

\* C10: resolving a PENDING connect with SO_ERROR zero makes the entry READY;
\* a non-zero SO_ERROR or a failed query removes the entry and logs the
\* event with its destination port.  An entry for a port without a listener
\* is never READY.
C10_Resolution ==
    [][/\ (Resolves /\ so_result' = "zero") =>
             /\ connection \in InRegistry(mem', first_conn_req')
             /\ mem'[connection].state = STATE_READY
       /\ (Resolves /\ so_result' # "zero") =>
             /\ connection \notin InRegistry(mem', first_conn_req')
             /\ find_connection(mem', first_conn_req', mem[connection].destport) = NULL
             /\ \E i \in 1..Len(log') :
                   /\ log'[i].port = mem[connection].destport
                   /\ log'[i].what \in {"connect failure", "getsockopt failed"}
       /\ \A c \in InRegistry(mem', first_conn_req') :
             mem'[c].destport \notin listeners => mem'[c].state # STATE_READY]_vars

\* a connect to a port without a listener has just been resolved: removed
C10_Witness ==
    /\ so_result \in {"error", "query fails"}
    /\ connection # NULL
    /\ mem[connection].destport \notin listeners
    /\ mem[connection].state = STATE_PENDING
    /\ ~mem[connection].live
    /\ find_connection(mem, first_conn_req, mem[connection].destport) = NULL

\* the step logged a blocked send on the connection to this port
BlockedOn(port) == \E i \in 1..Len(log') : log'[i] = Ev("ERROR", "sendmsg blocked", port)

RECURSIVE Without(_, _)
Without(seq, x) ==
    IF seq = <<>> THEN <<>>
    ELSE IF Head(seq) = x THEN Without(Tail(seq), x)
    ELSE <<Head(seq)>> \o Without(Tail(seq), x)

\* what an entry holds apart from its list links
Contents(e) == [state |-> e.state, open |-> e.open, destport |-> e.destport,
                sendport |-> e.sendport, msgix |-> e.msgix, sntix |-> e.sntix,
                rspix |-> e.rspix, pndix |-> e.pndix, queue |-> e.queue]

\* the step removes entry c because of an error on c: a failed connect,
\* a failed send, or a receive that ended Terminated or Failure
ErrorRemoves(c) ==
    /\ pc \in {"test", "conn_write", "drain", "recv"}
    /\ c \in InRegistry(mem, first_conn_req)
    /\ c \notin InRegistry(mem', first_conn_req')

\* an error removal takes exactly the failing entry out of the registry and
\* leaves every other entry, and their order, as they were
RemovalIsolated ==
    [][\A c \in Slots : ErrorRemoves(c) =>
          /\ Registry(mem', first_conn_req')
                = Without(Registry(mem, first_conn_req), c)
          /\ \A d \in InRegistry(mem, first_conn_req) \ {c} :
                /\ Contents(mem'[d]) = Contents(mem[d])
                /\ mem'[d].live
                /\ wire'[d] = wire[d]
          /\ running' = running]_vars

\* C12: error isolation.  An error removal takes exactly the failing entry
\* out of the registry, every other entry keeps its state, socket, counters,
\* queue and place, and the loop keeps running: the pass goes on with the
\* entry that followed the removed one and the process does not end.
C12_ErrorIsolation ==
    [][/\ \A c \in Slots : ErrorRemoves(c) =>
             /\ Registry(mem', first_conn_req')
                   = Without(Registry(mem, first_conn_req), c)
             /\ \A d \in InRegistry(mem, first_conn_req) \ {c} :
                   /\ Contents(mem'[d]) = Contents(mem[d])
                   /\ mem'[d].live
                   /\ wire'[d] = wire[d]
             /\ running' = running
             /\ pc' \notin {"crashed", "exited"}
       /\ (pc = "advance" /\ ~mem[connection].live) =>
             /\ pc' = "conn_write"
             /\ connection' = mem[connection].next]_vars

\* C13: apart from Quit, the coordinating process ends only when the
\* readiness wait fails with an error other than an interruption; a failed
\* accept and a failed fork do not end it.
C13_FatalOnly ==
    pc = "exited" => (~running \/ retcode = "error")

\* the positions that can follow a position of main's loop
CycleOrder ==
    [p \in {"select", "stdin", "test", "accept", "conn_write", "drain",
            "conn_read", "recv", "advance", "exited", "crashed"} |->
       CASE p = "select"     -> {"select", "stdin", "exited"}
         [] p = "stdin"      -> {"test"}
         [] p = "test"       -> {"accept", "exited"}
         [] p = "accept"     -> {"conn_write", "exited"}
         [] p = "conn_write" -> {"drain", "conn_read", "advance", "select"}
         [] p = "drain"      -> {"drain", "conn_read"}
         [] p = "conn_read"  -> {"recv", "advance"}
         [] p = "recv"       -> {"recv", "advance"}
         [] p = "advance"    -> {"conn_write", "crashed"}
         [] OTHER            -> {}]

\* the entries of a sequence that are in the registry, in their order
RECURSIVE StillRegistered(_, _, _)
StillRegistered(seq, m, first) ==
    IF seq = <<>> THEN <<>>
    ELSE IF Head(seq) \in InRegistry(m, first)
         THEN <<Head(seq)>> \o StillRegistered(Tail(seq), m, first)
         ELSE StillRegistered(Tail(seq), m, first)

\* C19: a cycle handles the Command Source, then the test-message
\* generator, then the listening socket, then the connections in registry
\* order, each one's write readiness before its read readiness; what each
\* section does happens only at its place; after Quit the cycle accepts
\* nothing and does no connection I/O.
C19_CycleOrder ==
    [][/\ pc' \in CycleOrder[pc]
       \* commands act at the Command Source only
       /\ (current_endpt' # current_endpt \/ running' # running
             \/ Len(Registry(mem', first_conn_req')) > Len(Registry(mem, first_conn_req)))
            => pc = "stdin"
       \* messages are submitted by the generator only
       /\ submitted' # submitted => pc = "test"
       /\ testcount' # testcount => pc \in {"stdin", "test"}
       \* workers are spawned at the listening socket only
       /\ first_conn_srv' # first_conn_srv => pc = "accept"
       \* the pass: registry order, write before read
       /\ visited' # visited => pc \in {"accept", "conn_write"}
       /\ LET seen == StillRegistered(visited', mem', first_conn_req')
          IN  seen = SubSeq(Registry(mem', first_conn_req'), 1, Len(seen))
       /\ pc' \in {"drain", "conn_read", "recv", "advance"} =>
             /\ visited' # <<>>
             /\ connection' = visited'[Len(visited')]
       /\ (\E c \in Slots : mem'[c].rspix # mem[c].rspix) => pc = "recv"
       /\ (\E c \in Slots : mem'[c].state # mem[c].state)
            => pc \in {"stdin", "conn_write"}
       \* after Quit
       /\ ~running =>
             /\ pc = "test" /\ pc' = "exited"
             /\ testcount = 0
             /\ UNCHANGED <<mem, first_conn_req, first_conn_srv, wire, submitted>>]_vars

\* the process has ended by Quit in a cycle in which it held a connection
\* and select had reported ready descriptors
C19_Witness ==
    /\ pc = "exited"
    /\ ~running
    /\ retcode = "ready"
    /\ Registry(mem, first_conn_req) # <<>>

\* what one call of tcp_recv_message in the read-ready branch may do to the
\* entry under `connection`: count a Complete and call again, end the loop
\* on Blocked with nothing changed, or remove the entry
ReceiveEffect ==
    \/ /\ mem' = [mem EXCEPT ![connection].rspix = @ + 1]
       /\ first_conn_req' = first_conn_req
       /\ pc' = "recv"
    \/ /\ mem' = mem
       /\ first_conn_req' = first_conn_req
       /\ pc' = "advance"
    \/ /\ connection \notin InRegistry(mem', first_conn_req')
       /\ find_connection(mem', first_conn_req', mem[connection].destport) = NULL
       /\ Registry(mem', first_conn_req')
             = Without(Registry(mem, first_conn_req), connection)
       /\ pc' = "advance"

\* C20: read-ready handling.  Receive is called only on a connection of the
\* registry whose state is READY; a Complete adds exactly 1 to the received
\* counter and receive is called again; Blocked ends the loop and leaves
\* the connection and the registry as they were; Terminated and Failure
\* remove the connection.  The received counter changes in no other step.
C20_ReadReady ==
    [][/\ pc = "recv" =>
             /\ connection \in InRegistry(mem, first_conn_req)
             /\ mem[connection].state = STATE_READY
             /\ ReceiveEffect
       /\ (\E c \in Slots : mem'[c].rspix # mem[c].rspix) => pc = "recv"]_vars

\* C20 for the calls made on an entry that has not been freed
ReadReadyOnLive ==
    [][/\ (pc = "recv" /\ mem[connection].live) =>
             /\ connection \in InRegistry(mem, first_conn_req)
             /\ mem[connection].state = STATE_READY
             /\ ReceiveEffect
       /\ (\E c \in Slots : mem'[c].rspix # mem[c].rspix) => pc = "recv"]_vars

\* the blocks that held an entry which has been removed
Removed(m) == {c \in Slots : m[c] # NoConn /\ ~m[c].live}

\* C21: remove(port) closes the socket of the entry for the port and takes
\* the entry out of the registry, so that find(port) finds nothing; the
\* messages that were queued on a removed entry are never written; an add
\* for a port without an entry reports no duplicate, and an entry that
\* enters the registry has an empty queue and counters all zero.
C21_Remove ==
    [][/\ \A v \in 0..NumPorts : CmdRem(v) =>
             /\ find_connection(mem', first_conn_req', v) = NULL
             /\ \A c \in InRegistry(mem, first_conn_req) :
                   mem[c].destport = v =>
                      /\ ~mem'[c].open
                      /\ ~mem'[c].live
                      /\ c \notin InRegistry(mem', first_conn_req')
       /\ \A c \in InRegistry(mem, first_conn_req) \ InRegistry(mem', first_conn_req') :
             /\ ~mem'[c].open
             /\ find_connection(mem', first_conn_req', mem[c].destport) = NULL
       /\ \A c \in Removed(mem) :
             /\ wire'[c] = wire[c]
             /\ c \notin InRegistry(mem', first_conn_req')
       /\ \A v \in 0..NumPorts :
             (CmdAdd(v) /\ find_connection(mem, first_conn_req, v) = NULL) =>
                 \A i \in 1..Len(log') : log'[i].what # "already connected"
       /\ \A c \in InRegistry(mem', first_conn_req') \ InRegistry(mem, first_conn_req) :
             /\ mem'[c].queue = <<>>
             /\ mem'[c].msgix = 0 /\ mem'[c].sntix = 0
             /\ mem'[c].rspix = 0 /\ mem'[c].pndix = 0
             /\ wire'[c] = <<>>]_vars

\* an entry was removed by command while a message was queued on it, and
\* a new entry for the same port is in the registry
C21_Witness ==
    \E c \in Removed(mem), d \in InRegistry(mem, first_conn_req) :
        /\ mem[c].queue # <<>>
        /\ mem[d].destport = mem[c].destport
        /\ mem[d].queue = <<>>
        /\ log = <<Ev("SOCKET", "client socket created", mem[d].destport),
                   Ev("SOCKET", "socket connect", mem[d].destport)>>

\* the entry on which the step from the current state calls send_message
SendsOn == IF pc = "drain" THEN connection ELSE current_endpt

\* C22: the status of a send is SEND_COMPLETE exactly when sendmsg wrote a
\* positive number of bytes, SEND_BLOCKED exactly when it wrote none and
\* reported EWOULDBLOCK, SEND_FAILURE otherwise (a write of zero bytes
\* included); send_message removes the entry for SEND_FAILURE and for no
\* other status, and only a complete send puts a frame on the connection.
C22_SendResult ==
    [][sendmsg_ret' # NoSendmsg =>
         LET os     == sendmsg_ret'
             status == tcp_send_message(os)
             c      == SendsOn
         IN /\ (status = SEND_COMPLETE) <=> (os.n > 0)
            /\ (status = SEND_BLOCKED) <=> (os.n < 0 /\ os.errno = EWOULDBLOCK)
            /\ (status = SEND_FAILURE) <=>
                   (os.n = 0 \/ (os.n < 0 /\ os.errno # EWOULDBLOCK))
            /\ status = SEND_FAILURE =>
                   /\ c \notin InRegistry(mem', first_conn_req')
                   /\ ~mem'[c].open
                   /\ wire' = wire
            /\ status = SEND_BLOCKED =>
                   /\ InRegistry(mem', first_conn_req') = InRegistry(mem, first_conn_req)
                   /\ mem'[c].queue # <<>>
                   /\ wire' = wire
            /\ status = SEND_COMPLETE =>
                   /\ InRegistry(mem', first_conn_req') = InRegistry(mem, first_conn_req)
                   /\ Len(wire'[c]) = Len(wire[c]) + 1
                   /\ mem'[c].sntix = mem[c].sntix + 1]_vars

\* sendmsg wrote no bytes on a connection of the registry, which the step
\* removed
C22_Witness ==
    /\ sendmsg_ret.n = 0
    /\ sendmsg_ret.errno = EWOULDBLOCK
    /\ \E c \in Removed(mem) :
          log = <<Ev("ERROR", "sendmsg", mem[c].destport),
                  Ev("OTHER", "closing and removing", mem[c].destport)>>

\* C26: an invalid or unknown command is reported and otherwise ignored:
\* the step leaves the registry, the selected endpoint and a test-message
\* run that is active as they were, and the process goes on.
C26_InvalidIgnored ==
    [][CmdInvalid =>
          /\ log' = <<Ev("ERROR", "unknown command", 0)>>
          /\ mem' = mem
          /\ first_conn_req' = first_conn_req
          /\ current_endpt' = current_endpt
          /\ running' = running
          /\ pc' \notin {"exited", "crashed"}
          /\ testcount' = testcount]_vars

\* the part of C26 that leaves the test-message run aside
InvalidKeepsRegistry ==
    [][CmdInvalid =>
          /\ log' = <<Ev("ERROR", "unknown command", 0)>>
          /\ mem' = mem
          /\ first_conn_req' = first_conn_req
          /\ current_endpt' = current_endpt
          /\ running' = running
          /\ pc' \notin {"exited", "crashed"}]_vars

\* C28: a message submitted on a connection with a non-empty queue is
\* appended at the tail, and the one send attempt of the submission is for
\* the entry that was at the head; the new message itself is handed to
\* sendmsg at once only when the queue was empty.
C28_HeadFirst ==
    [][\A c \in Slots : submitted'[c] # submitted[c] =>
          LET new   == NextPayload(c)
              q     == mem[c].queue
              entry == [msgix |-> mem[c].msgix + 1, buffer |-> new]
              wrote == wire'[c] # wire[c]
          IN /\ sendmsg_ret' # NoSendmsg
             /\ Len(wire'[c]) <= Len(wire[c]) + 1
             /\ \A d \in Slots \ {c} : wire'[d] = wire[d]
             /\ q # <<>> =>
                   /\ wrote => wire'[c] = Append(wire[c], [ix |-> mem[c].msgix + 1,
                                                          payload |-> Head(q).buffer])
                   /\ c \in InRegistry(mem', first_conn_req') =>
                         mem'[c].queue = (IF wrote THEN Tail(q) ELSE q) \o <<entry>>
             /\ (wrote /\ wire'[c][Len(wire'[c])].payload = new) => q = <<>>
             /\ (q = <<>> /\ wrote) => wire'[c][Len(wire'[c])].payload = new]_vars

\* the second message was submitted while the first was queued: the first
\* has been written and the second is the only entry of the queue
C28_Witness ==
    \E c \in InRegistry(mem, first_conn_req) :
        /\ submitted[c] = <<1, 2>>
        /\ wire[c] = <<[ix |-> 2, payload |-> 1]>>
        /\ QueueBuffers(mem, c) = <<2>>
        /\ sendmsg_ret.n = 1

\* C30: an input line that does not start with '#' becomes a
\* SendMessage command, and its text is submitted on the selected
\* connection.
C30_TextIsSent ==
    [][\A line \in TextLines :
          (CmdText(line) /\ ~NoActiveConnection(mem, current_endpt)) =>
              /\ userio_get_command(line) = ACTION_SEND_MESSAGE
              /\ sendmsg_ret' # NoSendmsg
              /\ submitted'[current_endpt] =
                     Append(submitted[current_endpt], NextPayload(current_endpt))]_vars

\* C31: every connection of the registry in state READY has its local
\* send port assigned from the connected socket, however READY was reached.
C31_SendPort ==
    \A c \in InRegistry(mem, first_conn_req) :
        mem[c].state = STATE_READY => mem[c].sendport = "assigned"

\* the part of C31 for a connect that was PENDING: the step that makes the
\* connection READY assigns the send port
ResolvedHasPort ==
    [][\A c \in InRegistry(mem, first_conn_req) :
          (mem[c].state = STATE_PENDING /\ mem'[c].state = STATE_READY) =>
              mem'[c].sendport = "assigned"]_vars

\* C32: a message is counted as sent, and leaves the queue, only in a
\* step whose sendmsg wrote the whole frame, header and payload, so that
\* the bytes written to a connection are a concatenation of whole frames.
C32_WholeFrames ==
    [][\A c \in Slots :
          (mem'[c].sntix > mem[c].sntix \/ wire'[c] # wire[c]) =>
              sendmsg_ret'.n = WholeFrame]_vars

\* the part of C32 that does not depend on the number of bytes: a message
\* is counted as sent only in a step whose sendmsg wrote some bytes, and
\* then one frame is added to the history of the connection
SentOnlyWhenWritten ==
    [][\A c \in Slots :
          (mem'[c].sntix > mem[c].sntix \/ wire'[c] # wire[c]) =>
              /\ sendmsg_ret'.n > 0
              /\ mem'[c].sntix = mem[c].sntix + 1
              /\ Len(wire'[c]) = Len(wire[c]) + 1]_vars

\* one test message is produced on the selected connection and the number
\* of remaining test messages goes down by 1
ProducesOne ==
    /\ testcount' = testcount - 1
    /\ current_endpt # NULL
    /\ submitted'[current_endpt] =
           Append(submitted[current_endpt], NextPayload(current_endpt))
    /\ \A c \in Slots \ {current_endpt} : submitted'[c] = submitted[c]

\* C33 for the cycles in which select reports a ready descriptor: RunTest
\* with a selected connection sets the remaining count to its argument
\* clamped to 0..TestCountMax, every other command sets it to 0, and the
\* generator produces one message and counts down while it is positive
TestRunOnReady ==
    /\ \A value \in {-1, 1, TestCountMax + 1} :
          (CmdTest(value) /\ ~NoActiveConnection(mem, current_endpt)) =>
              /\ testcount' = ClampTestCount(value)
              /\ testcount' \in 0..TestCountMax
              /\ (value \in 0..TestCountMax => testcount' = value)
    /\ (pc = "stdin" /\ ~NoCommand /\ ~(\E value \in {-1, 1, TestCountMax + 1} : CmdTest(value)))
          => testcount' = 0
    /\ (pc = "test" /\ testcount > 0) => ProducesOne
    /\ (pc = "test" /\ testcount = 0) => (submitted' = submitted /\ testcount' = 0)

\* C33: the test-message run.  As TestRunOnReady, and a cycle whose select
\* ended by timeout produces its test message as well.
C33_TestRun ==
    [][/\ TestRunOnReady
       /\ (pc = "select" /\ testcount > 0 /\ retcode' = "timeout") => ProducesOne]_vars

\* C33 without the cycles that end by timeout
TestRunWithoutTimeout == [][TestRunOnReady]_vars

\* C34: every frame written on a connection carries the index its message
\* was given at submission (the k-th message submitted has index k and
\* payload k), so the frames of a connection carry 1, 2, 3, ... in order.
C34_FrameIndex ==
    \A c \in Slots : \A i \in 1..Len(wire[c]) :
        /\ wire[c][i].ix = wire[c][i].payload
        /\ wire[c][i].ix = i

\* the index add_message stores with a queued message is the index of its
\* submission
QueuedIndex ==
    \A c \in InRegistry(mem, first_conn_req) : \A i \in 1..Len(mem[c].queue) :
        mem[c].queue[i].msgix = mem[c].queue[i].buffer

C36_SelectionValid ==
    current_endpt = NULL \/ current_endpt \in InRegistry(mem, first_conn_req)

\* C36, the access: no step reads or writes a removed connection through
\* the selection
SelectionNotUsedAfterFree == uaf # "current_endpt"

\* the part of C36 about the commands: RemoveEndpoint of the selected port
\* clears the selection, and a test run asked for without an active
\* selection is rejected and changes no connection
SelectionByCommand ==
    [][/\ \A v \in 0..NumPorts :
             (CmdRem(v) /\ current_endpt \in InRegistry(mem, first_conn_req)
                        /\ mem[current_endpt].destport = v) => current_endpt' = NULL
       /\ \A value \in {-1, 1, TestCountMax + 1} :
             (CmdTest(value) /\ current_endpt = NULL) =>
                 /\ log' = <<Ev("ERROR", "no active connection", 0)>>
                 /\ mem' = mem /\ testcount' = 0]_vars

\* C37: within a dispatch pass a connection that has been removed is not
\* handled further: the pass makes no drain call, readiness test or
\* receive on an entry that is not live, and removes no entry twice.
C37_RemovedNotHandled ==
    pc \in {"drain", "conn_read", "recv"} => mem[connection].live

\* the part of C37 for a connect that failed and for the receive: after
\* these removals the pass goes on to the next entry
RemovalEndsHandling ==
    [][(/\ pc \in {"conn_write", "recv"}
        /\ connection \in InRegistry(mem, first_conn_req)
        /\ connection \notin InRegistry(mem', first_conn_req')) => pc' = "advance"]_vars

\* ========================================================================
\* SpecNoMem: the dispatcher when malloc can fail in add_message
\* ========================================================================

\* send_message(connection, buffer) with a message to add, when the malloc
\* of add_message fails; os is what sendmsg returns
send_message_nomem(m, first, c, buf, os) ==
    LET nomem == <<Ev("ERROR", "memory allocation", 0)>>
    IN
    IF m[c].queue # <<>> THEN
        \* add_message returns -1 and rem_connection (connection->destport)
        \* frees the entry; the function then goes on as it does for a call
        \* without buffer: pending->buffer is sent on connection->sockfd
        LET r1 == rem_connection(m, first, m[c].destport)
            r2 == send_message(r1.mem, r1.first, c, NoBuf, tcp_send_message(os))
        IN [mem |-> r2.mem, first |-> r2.first, ret |-> r2.ret, sent |-> r2.sent,
            log |-> nomem \o r1.log \o r2.log]
    ELSE
        \* SEND_BLOCKED: the value of add_message is not looked at
        [mem |-> [m EXCEPT ![c].pndix = @ + 1],
         first |-> first, ret |-> -1, sent |-> <<>>,
         log |-> <<Ev("ERROR", "sendmsg blocked", m[c].destport)>> \o nomem]

\* the test-message generator when the malloc of add_message fails: with
\* nothing queued add_message is called only after SEND_BLOCKED
TestMessageNoMem ==
    /\ pc = "test"
    /\ testcount # 0
    /\ Submissions < MaxMsgs
    /\ so_result' = "none"
    /\ RestUnchanged
    /\ pc' = AfterTest(running)
    /\ UNCHANGED <<first_conn_srv, current_endpt, connection, running, retcode,
                   visited>>
    /\ testcount' = testcount - 1
    /\ LET c       == current_endpt
           m1      == [mem EXCEPT ![c].msgix = @ + 1]
           pending == mem[c].queue # <<>>
           atsend  == IF pending
                      THEN rem_connection(m1, first_conn_req, m1[c].destport).mem
                      ELSE m1
       IN /\ uaf' = IF Dangling(mem, c) \/ pending THEN "current_endpt" ELSE "none"
          /\ \E os \in SendmsgReturns(atsend, c) :
                /\ pending \/ tcp_send_message(os) = SEND_BLOCKED
                /\ LET r == send_message_nomem(m1, first_conn_req, c, NextPayload(c), os)
                   IN /\ mem' = r.mem
                      /\ first_conn_req' = r.first
                      /\ log' = r.log
                      /\ sendmsg_ret' = os
                      /\ submitted' = [submitted EXCEPT ![c] = Append(@, NextPayload(c))]
                      /\ wire' = Sent(c, r.sent)
                      /\ ready_one' = Untestable(r.mem)

NextNoMem ==
    \/ Next
    \/ TestMessageNoMem

SpecNoMem == Init /\ [][NextNoMem]_vars

\* add_message reported a failed allocation in the step
NoMemStep == \E i \in 1..Len(log') : log'[i].what = "memory allocation"

\* C27: a failed allocation while a message is enqueued aborts the attempt
\* without inconsistency.  Either the sent, received and blocked counters
\* and the queue of the connection are as before, or the connection has
\* been removed and the call makes no send attempt and no use of the entry
\* after that; and the blocked counter counts the message only if the
\* message is in the queue.
C27_AllocFailure ==
    [][NoMemStep =>
         LET c == current_endpt
         IN /\ \/ /\ c \in InRegistry(mem', first_conn_req')
                  /\ mem'[c].queue = mem[c].queue
                  /\ mem'[c].sntix = mem[c].sntix
                  /\ mem'[c].rspix = mem[c].rspix
                  /\ mem'[c].pndix = mem[c].pndix
               \/ /\ c \notin InRegistry(mem', first_conn_req')
                  /\ sendmsg_ret' = NoSendmsg
                  /\ uaf' = "none"
            /\ mem'[c].pndix > mem[c].pndix =>
                  \E i \in 1..Len(mem'[c].queue) :
                      mem'[c].queue[i].buffer = NextPayload(c)]_vars

\* the part of C27 about the removed connection: no send is attempted on
\* an entry the call has removed
NoSendAfterRemoval ==
    [][(NoMemStep /\ current_endpt \notin InRegistry(mem', first_conn_req')) =>
           sendmsg_ret' = NoSendmsg]_vars

\* the part of C27 about the blocked counter
PendingIsQueued ==
    [][(NoMemStep /\ mem'[current_endpt].pndix > mem[current_endpt].pndix) =>
           \E i \in 1..Len(mem'[current_endpt].queue) :
               mem'[current_endpt].queue[i].buffer = NextPayload(current_endpt)]_vars

\* ========================================================================
\* SpecWorker: one worker process (child_handle_client, endpoint.c:906-1060)
\* ========================================================================
\* the k-th inbound frame carries the payload k; a queue entry is the
\* qentry of endpoint.c:985-1000
QEntry(buf, msgix) == [buffer |-> buf, msgix |-> msgix]

InitWorker ==
    /\ RecvIdle
    /\ DispIdle
    /\ ReapIdle
    /\ w_pc = "select"
    /\ w_firstmsg = <<>>
    /\ w_chain = <<>>
    /\ w_pending = 0
    /\ w_send_count = 0
    /\ w_recv_count = 0
    /\ w_running = TRUE
    /\ w_retcode = "none"
    /\ w_tick = 0
    /\ w_wire = <<>>
    /\ w_blocks = 0
    /\ w_pass = <<>>

WorkerRest == UNCHANGED <<recvVars, dispVars, reapVars>>

\* select returns -1, because a signal interrupted it (EINTR; the line
\* `if (errno == EINTR) continue;` is commented out) or with another
\* error: the loop ends, the socket is closed
WorkerSelectFails ==
    /\ w_pc = "select"
    /\ w_running' = FALSE
    /\ w_pc' = "exited"
    /\ w_retcode' \in {"error", "EINTR"}
    /\ w_tick' = 1 - w_tick
    /\ WorkerRest
    /\ UNCHANGED <<w_firstmsg, w_chain, w_pending, w_send_count, w_recv_count,
                   w_wire, w_blocks, w_pass>>

\* select returns 0: `continue`, the drain is not reached
WorkerSelectTimeout ==
    /\ w_pc = "select"
    /\ w_pass' = <<>>
    /\ w_retcode' = "timeout"
    /\ w_tick' = 1 - w_tick
    /\ WorkerRest
    /\ UNCHANGED <<w_pc, w_firstmsg, w_chain, w_pending, w_send_count,
                   w_recv_count, w_running, w_wire, w_blocks>>

\* what tcp_recv_message can return to the worker
WorkerRecvOutcomes ==
    {RECV_BLOCKED, RECV_TERMINATED, RECV_FAILURE}
    \cup (IF w_recv_count < MaxInbound THEN {RECV_COMPLETE} ELSE {})

\* select reports the socket readable: the read-ready branch, up to
\* `pending = firstmsg.next`
WorkerRecv ==
    /\ w_pc = "select"
    /\ WorkerRest
    /\ UNCHANGED <<w_send_count, w_wire, w_blocks>>
    /\ w_retcode' = "ready"
    /\ w_tick' = 1 - w_tick
    /\ w_pass' = <<>>
    /\ \E outcome \in WorkerRecvOutcomes :
         IF outcome \in {RECV_TERMINATED, RECV_FAILURE} THEN
              /\ w_running' = FALSE
              /\ w_pc' = "exited"
              /\ UNCHANGED <<w_firstmsg, w_chain, w_pending, w_recv_count>>
         ELSE
              LET count == IF outcome = RECV_COMPLETE THEN w_recv_count + 1
                           ELSE w_recv_count
                  queue == IF outcome = RECV_COMPLETE
                           THEN Append(w_firstmsg, QEntry(count, count))
                           ELSE w_firstmsg
              IN /\ w_recv_count' = count
                 /\ w_firstmsg' = queue
                 /\ w_chain' = queue
                 /\ w_pending' = IF queue = <<>> THEN 0 ELSE 1
                 /\ w_pc' = "drain"
                 /\ UNCHANGED w_running

\* what tcp_send_message can return to the worker
WorkerSendOutcomes ==
    {SEND_COMPLETE, SEND_FAILURE}
    \cup (IF w_blocks < MaxWorkerBlocked THEN {SEND_BLOCKED} ELSE {})

\* the entry after index i of the chain, 0 for NULL
ChainNext(i) == IF i < Len(w_chain) THEN i + 1 ELSE 0

\* what the drain does with the entry it has sent: on SEND_COMPLETE
\* `firstmsg.next = pending->next`
AfterComplete(i) == SubSeq(w_chain, i + 1, Len(w_chain))

\* one iteration of while (pending), endpoint.c:1018-1054
WorkerSend ==
    /\ w_pc = "drain"
    /\ w_pending # 0
    /\ WorkerRest
    /\ UNCHANGED <<w_chain, w_recv_count, w_retcode, w_tick>>
    /\ \E outcome \in WorkerSendOutcomes :
         LET entry == w_chain[w_pending]
             frame == [ix |-> w_send_count + 1, payload |-> entry.buffer]
         IN /\ w_pass' = Append(w_pass, [msgix |-> entry.msgix, outcome |-> outcome])
            /\ IF outcome = SEND_BLOCKED THEN
                    /\ w_blocks' = w_blocks + 1
                    /\ w_pending' = ChainNext(w_pending)
                    /\ UNCHANGED <<w_pc, w_firstmsg, w_send_count, w_running, w_wire>>
               ELSE IF outcome = SEND_FAILURE THEN
                    /\ w_running' = FALSE
                    /\ w_pc' = "exited"
                    /\ UNCHANGED <<w_firstmsg, w_pending, w_send_count, w_wire, w_blocks>>
               ELSE
                    /\ w_firstmsg' = AfterComplete(w_pending)
                    /\ w_send_count' = w_send_count + 1
                    /\ w_wire' = Append(w_wire, frame)
                    /\ w_pending' = ChainNext(w_pending)
                    /\ UNCHANGED <<w_pc, w_running, w_blocks>>

\* `pending` is NULL: the drain is over, back to select
WorkerDrainEnd ==
    /\ w_pc = "drain"
    /\ w_pending = 0
    /\ w_pc' = "select"
    /\ w_chain' = <<>>
    /\ WorkerRest
    /\ UNCHANGED <<w_firstmsg, w_pending, w_send_count, w_recv_count, w_running,
                   w_retcode, w_tick, w_wire, w_blocks, w_pass>>

NextWorker ==
    \/ WorkerSelectFails
    \/ WorkerSelectTimeout
    \/ WorkerRecv
    \/ WorkerSend
    \/ WorkerDrainEnd

SpecWorker == InitWorker /\ [][NextWorker]_vars

\* C4: in a worker, a drain makes no send after one that ended Blocked,
\* responses are transmitted in the order their inbound frames arrived, and
\* every response the worker has queued is on the wire or still in the queue.
C4_WorkerFifo ==
    /\ \A i \in 1..Len(w_pass) :
          w_pass[i].outcome = SEND_BLOCKED => i = Len(w_pass)
    /\ \A i, j \in 1..Len(w_wire) : i < j => w_wire[i].payload < w_wire[j].payload
    /\ w_running =>
          {w_wire[i].payload : i \in 1..Len(w_wire)}
             \cup {w_firstmsg[i].buffer : i \in 1..Len(w_firstmsg)}
          = 1..w_recv_count

\* C15: every iteration of the worker's loop that leaves the worker running
\* goes on to the drain of the send queue, whatever select returned and
\* whatever the receive returned.
C15_DrainEveryIteration ==
    [][(w_pc = "select" /\ w_running') => w_pc' = "drain"]_vars

\* the worker's select returns, with whatever result
WorkerSelectReturns == WorkerSelectFails \/ WorkerSelectTimeout \/ WorkerRecv

\* the worker's loop under fair scheduling: select returns again and again
\* (its timeout is one second) and a drain that has begun goes on
SpecWorkerLive ==
    /\ InitWorker /\ [][NextWorker]_vars
    /\ WF_vars(WorkerSelectReturns)
    /\ WF_vars(WorkerSend)
    /\ WF_vars(WorkerDrainEnd)

\* the response to inbound frame k is queued / has been written
Queued(k) == \E i \in 1..Len(w_firstmsg) : w_firstmsg[i].buffer = k
Written(k) == \E i \in 1..Len(w_wire) : w_wire[i].payload = k

\* C16: if from some time on the worker's socket accepts every send, a
\* response in the send queue is eventually written, or the worker has
\* ended; this needs no further frame from the peer.
C16_WorkerProgress ==
    (<>[](w_blocks = MaxWorkerBlocked)) =>
        \A k \in 1..MaxInbound : Queued(k) ~> (Written(k) \/ ~w_running)

\* a consequence of C16 that does not depend on the order of the drain: no
\* response stays in the queue for ever while the worker runs and its
\* socket accepts every send
NoResponseStuck ==
    \A k \in 1..MaxInbound :
        ~<>[](Queued(k) /\ w_running /\ w_blocks = MaxWorkerBlocked)

\* C17: worker echo.  A completed inbound frame adds exactly 1 to the
\* receive counter and appends exactly one response, carrying the received
\* payload and tagged with the new counter value; the queue grows in no
\* other step; and every frame the worker writes carries as its index the
\* counter value its inbound frame was given (inbound frame k has payload k).
C17_WorkerEcho ==
    [][/\ w_recv_count' # w_recv_count =>
             /\ w_recv_count' = w_recv_count + 1
             /\ w_firstmsg' = Append(w_firstmsg, QEntry(w_recv_count', w_recv_count'))
       /\ Len(w_firstmsg') > Len(w_firstmsg) => w_recv_count' = w_recv_count + 1
       /\ \A i \in 1..Len(w_wire') : w_wire'[i].ix = w_wire'[i].payload]_vars

\* the part of C17 about the receive side alone
EchoEnqueues ==
    [][/\ w_recv_count' # w_recv_count =>
             /\ w_recv_count' = w_recv_count + 1
             /\ w_firstmsg' = Append(w_firstmsg, QEntry(w_recv_count', w_recv_count'))
       /\ Len(w_firstmsg') > Len(w_firstmsg) => w_recv_count' = w_recv_count + 1]_vars

\* C23: end-to-end echo, at the worker.  If the worker stays alive, its
\* peer's frames all arrive and its socket ends up accepting every send,
\* then for every frame the worker has received the echo is eventually
\* written to the connection (without which the dispatcher cannot receive
\* it and its received counter cannot reach its sent counter).
C23_EndToEndEcho ==
    ([]w_running /\ <>(w_recv_count = MaxInbound)) =>
        \A k \in 1..MaxInbound : (w_recv_count >= k) ~> Written(k)

\* the status of the send the step has made in the drain, "none" otherwise
SendStatus ==
    IF w_pc = "drain" /\ Len(w_pass') > Len(w_pass)
    THEN w_pass'[Len(w_pass')].outcome ELSE "none"

\* C29: the end of the worker's loop.  A worker that stops running has
\* left the loop and closed its socket; a send that ends SEND_FAILURE ends
\* the worker; a receive or a send that ends Blocked, a timeout of select
\* and a select interrupted by a signal do not end it.
C29_WorkerEnds ==
    [][/\ (w_running /\ ~w_running') => w_pc' = "exited"
       /\ w_pc' = "exited" => ~w_running'
       /\ SendStatus = SEND_FAILURE => ~w_running'
       /\ SendStatus = SEND_BLOCKED => w_running'
       /\ (w_pc = "drain" /\ SendStatus = "none") => w_running'
       /\ (w_pc = "select" /\ w_retcode' = "timeout") => w_running'
       /\ (w_pc = "select" /\ w_retcode' = "EINTR") => w_running']_vars

\* C29 without the interrupted select
WorkerEndsOtherwise ==
    [][/\ (w_running /\ ~w_running') => w_pc' = "exited"
       /\ w_pc' = "exited" => ~w_running'
       /\ SendStatus = SEND_FAILURE => ~w_running'
       /\ SendStatus = SEND_BLOCKED => w_running'
       /\ (w_pc = "drain" /\ SendStatus = "none") => w_running'
       /\ (w_pc = "select" /\ w_retcode' = "timeout") => w_running']_vars

\* ========================================================================
\* SpecDrain: the two drains of the program: the process is either the
\* coordinating process (endpoint.c:1359-1360) or a worker
\* (endpoint.c:1017-1054)
\* ========================================================================
InitDrain == Init \/ InitWorker

NextDrain == Next \/ NextWorker

SpecDrain == InitDrain /\ [][NextDrain]_vars

\* a call send_message(connection, 0) of the drain of the coordinating
\* process: it returns 0 after it has taken one message off the queue, and
\* the loop makes the next call; or it returns -1 and the loop ends
DrainCall ==
    LET n == Len(mem[connection].queue)
    IN  /\ pc' = "drain" =>
              /\ n > 0
              /\ connection \in InRegistry(mem', first_conn_req')
              /\ Len(mem'[connection].queue) = n - 1
        /\ pc' # "drain" =>
              \/ n = 0 /\ sendmsg_ret' = NoSendmsg
              \/ tcp_send_message(sendmsg_ret') = SEND_BLOCKED
              \/ connection \notin InRegistry(mem', first_conn_req')

DrainOfTwo ==
    /\ w_pc = "drain"
    /\ w_pending = 0
    /\ Len(w_pass) = 2

\* ========================================================================
\* SpecReap: worker processes, their records, and the SIGCHLD handler
\* (endpoint.c:591-648, 1072-1099, 1288-1310)
\* ========================================================================
Pids == 1..MaxChildren
\* the listening socket, and the ports clients connect from
ServerSock == 0
ClientPorts == {40001, 40002}
NoArgs == [sock |-> -1, port |-> 0]

\* rem_server_link (called from nowhere in the program): the first record
\* with this pid is unlinked and freed
rem_server_link(links, pid) ==
    IF \E i \in 1..Len(links) : links[i].pid = pid
    THEN LET i == CHOOSE j \in 1..Len(links) :
                     /\ links[j].pid = pid
                     /\ \A k \in 1..(j - 1) : links[k].pid # pid
         IN  SubSeq(links, 1, i - 1) \o SubSeq(links, i + 1, Len(links))
    ELSE links

\* stop_server_link: every record with this pid is marked not valid
stop_server_link(links, pid) ==
    [i \in 1..Len(links) |->
        IF links[i].pid = pid THEN [links[i] EXCEPT !.valid = FALSE] ELSE links[i]]

RECURSIVE StopAll(_, _)
\* stop_server_link for each pid of a set
StopAll(links, pids) ==
    IF pids = {} THEN links
    ELSE LET pid == CHOOSE x \in pids : TRUE
         IN  StopAll(stop_server_link(links, pid), pids \ {pid})

\* a close that leaves the descriptor open
close_leak(h, proc, fd) == h

\* close(fd) in process proc
close(h, proc, fd) == [h EXCEPT ![proc] = @ \ {fd}]

\* the file status flags of a socket returned by accept on a listening
\* socket that has O_NONBLOCK: none (Linux) or the listening socket's (BSD);
\* as the set of sockets that get O_NONBLOCK
AcceptedFlags == {{}, Pids}

InitReap ==
    /\ RecvIdle
    /\ WorkIdle
    /\ pc = "accept"
    /\ mem = <<>>
    /\ first_conn_req = [next |-> 0, prev |-> 0]
    /\ first_conn_srv = <<>>
    /\ current_endpt = 0
    /\ connection = 0
    /\ testcount = 0
    /\ running = TRUE
    /\ ready_one = [set |-> "none", fd |-> 0]
    /\ listeners = {}
    /\ retcode = "none"
    /\ submitted = <<>>
    /\ wire = <<>>
    /\ log = <<>>
    /\ so_result = "none"
    /\ visited = <<>>
    /\ uaf = "none"
    /\ sendmsg_ret = NoSendmsg
    /\ children = [p \in Pids |-> "unborn"]
    /\ handles = [p \in 0..MaxChildren |-> IF p = 0 THEN {ServerSock} ELSE {}]
    /\ child_args = [p \in Pids |-> NoArgs]
    /\ client_port = 0
    /\ sigchld = FALSE
    /\ forked = 0
    \* tcp_create_socket has set O_NONBLOCK on the listening socket
    /\ nonblock = {ServerSock}

\* what the steps of SpecReap leave alone
ReapRest ==
    UNCHANGED <<recvVars, workVars, mem, first_conn_req, current_endpt, connection,
                testcount, running, ready_one, listeners, retcode, submitted, wire,
                so_result, visited, uaf, sendmsg_ret>>

\* tcp_accept_connection and fork succeed: the parent holds the accepted
\* socket, the child starts with a copy of every descriptor of the parent
Fork ==
    /\ pc = "accept"
    /\ \E pid \in Pids, port \in ClientPorts :
         /\ children[pid] = "unborn"
         /\ \A q \in Pids : q < pid => children[q] # "unborn"
         /\ children' = [children EXCEPT ![pid] = "started"]
         /\ handles' = [handles EXCEPT ![0] = @ \cup {pid},
                                       ![pid] = handles[0] \cup {pid}]
         /\ client_port' = port
         /\ forked' = pid
         \* the child's copies of clientsock and client_port
         /\ child_args' = [child_args EXCEPT ![pid] = [sock |-> pid, port |-> port]]
         \* tcp_accept_connection sets no flag on the socket accept returns:
         \* it has O_NONBLOCK only where accept passes the flag of the
         \* listening socket on (BSD does, Linux does not)
         /\ \E flags \in AcceptedFlags : nonblock' = nonblock \cup (flags \cap {pid})
    /\ pc' = "forked"
    /\ log' = <<>>
    /\ ReapRest
    /\ UNCHANGED <<first_conn_srv, sigchld>>

\* the child branch: close (serversock), then child_handle_client
\* (clientsock, client_port, recv_delay)
ChildStart ==
    /\ \E pid \in Pids :
         /\ children[pid] = "started"
         /\ children' = [children EXCEPT ![pid] = "running"]
         /\ handles' = close(handles, pid, ServerSock)
    /\ ReapRest
    /\ UNCHANGED <<pc, first_conn_srv, child_args, client_port, sigchld, forked, log,
                   nonblock>>

\* the parent logs the spawn, calls add_server_link and closes its copy of
\* the accepted socket
AddLink ==
    /\ pc = "forked"
    /\ first_conn_srv' = add_server_link(first_conn_srv, forked, client_port)
    /\ handles' = close(handles, 0, forked)
    /\ forked' = 0
    /\ pc' = "accept"
    /\ log' = <<Ev("OTHER", "spawned child", client_port)>>
    /\ ReapRest
    /\ UNCHANGED <<children, child_args, client_port, sigchld, nonblock>>

\* a worker process ends (child_handle_client closes the client socket and
\* returns, exit(0)): the kernel raises SIGCHLD for the parent
ChildExit ==
    /\ \E pid \in Pids :
         /\ children[pid] = "running"
         /\ children' = [children EXCEPT ![pid] = "zombie"]
         /\ handles' = [handles EXCEPT ![pid] = {}]
    /\ sigchld' = TRUE
    /\ ReapRest
    /\ UNCHANGED <<pc, first_conn_srv, child_args, client_port, forked, log, nonblock>>

\* sigchld_handler, run between any two statements of main: waitpid until
\* no terminated child is left, stop_server_link for each pid returned
Handler ==
    /\ sigchld
    /\ LET zombies == {p \in Pids : children[p] = "zombie"}
       IN /\ children' = [p \in Pids |-> IF p \in zombies THEN "reaped" ELSE children[p]]
          /\ first_conn_srv' = StopAll(first_conn_srv, zombies)
    /\ sigchld' = FALSE
    /\ log' = <<>>
    /\ ReapRest
    /\ UNCHANGED <<pc, handles, child_args, client_port, forked, nonblock>>

NextReap ==
    \/ Fork
    \/ ChildStart
    \/ AddLink
    \/ ChildExit
    \/ Handler

\* the parent goes on to add_server_link after a fork, and a pending
\* SIGCHLD is delivered
SpecReap ==
    InitReap /\ [][NextReap]_vars
    /\ WF_vars(AddLink) /\ WF_vars(ChildStart) /\ WF_vars(Handler)

\* the worker with this pid has terminated
Terminated(pid) == children[pid] \in {"zombie", "reaped"}

\* C14: however the worker-exit notification interleaves with the loop of
\* the coordinating process, no record of a running worker is marked
\* stopped, and once a worker has terminated its record is eventually
\* marked stopped.
C14_Reaping ==
    /\ [](\A i \in 1..Len(first_conn_srv) :
             ~first_conn_srv[i].valid => Terminated(first_conn_srv[i].pid))
    /\ \A pid \in Pids :
         Terminated(pid) ~>
            (\E i \in 1..Len(first_conn_srv) :
                first_conn_srv[i].pid = pid /\ ~first_conn_srv[i].valid)

\* the records of the worker with this pid
RecordsOf(links, pid) == {i \in 1..Len(links) : links[i].pid = pid}

C24_RecordLifecycle ==
    [][/\ Len(first_conn_srv') >= Len(first_conn_srv)
       /\ \A i \in 1..Len(first_conn_srv) :
             /\ first_conn_srv'[i].pid = first_conn_srv[i].pid
             /\ first_conn_srv'[i].port = first_conn_srv[i].port
             /\ first_conn_srv'[i].valid => first_conn_srv[i].valid
       /\ Len(first_conn_srv') > Len(first_conn_srv) =>
             /\ pc = "forked"
             /\ Len(first_conn_srv') = Len(first_conn_srv) + 1
             /\ first_conn_srv'[Len(first_conn_srv')].valid
             /\ first_conn_srv'[Len(first_conn_srv')].pid = forked]_vars

\* the record of a worker that has ended is still in the list, marked not
\* valid, after a later connection has added a valid record behind it
C24_Witness ==
    /\ Len(first_conn_srv) = 2
    /\ ~first_conn_srv[1].valid
    /\ children[first_conn_srv[1].pid] = "reaped"
    /\ first_conn_srv[2].valid

\* C25: every socket on which a process sends or receives is in
\* non-blocking mode: the socket a running worker was handed, on which
\* child_handle_client calls tcp_recv_message and tcp_send_message, has
\* O_NONBLOCK set.
C25_NonBlocking ==
    \A p \in Pids :
        children[p] = "running" => child_args[p].sock \in nonblock

====
